---- MODULE Spec2Model ----
(***************************************************************************)
(* Clustering and profile-synthesis pipeline of the playlist analyzers     *)
(* (backend/enhanced_clustering.py, backend/advanced_clustering.py).       *)
(*                                                                         *)
(* Conventions                                                             *)
(*  - a label array is a sequence of integers, one entry per row; Python's *)
(*    None is the empty sequence NoneLabels;                               *)
(*  - rows are numbered 1..n in the order of processed_tracks;             *)
(*  - the numerical libraries (KMeans, DBSCAN, HDBSCAN, GaussianMixture,   *)
(*    AgglomerativeClustering, silhouette_score) are inputs: each call     *)
(*    either raises or returns a label array allowed by its contract,      *)
(*    chosen with \E.  Label arrays are drawn up to a reordering of rows:  *)
(*    their entries are monotone (rows with equal labels adjacent, labels  *)
(*    first seen in increasing or in decreasing order);                    *)
(*  - ratios are compared by cross-multiplication on integers.             *)
(***************************************************************************)
EXTENDS Integers, Sequences, FiniteSets, TLC

(***************************************************************************)
(* Bounds of the model                                                     *)
(***************************************************************************)
MaxTracks == 5       \* playlists of 1..MaxTracks valid tracks
MaxExtra == 1        \* sizes SizeThreshold .. SizeThreshold + MaxExtra of the size-constrained branch
BlockRows == 5       \* rows of SizeThreshold or more are labelled in runs of BlockRows rows
RngPeriod == 3       \* the number of states of the generator np.random
MaxK == 4            \* largest n_clusters passed to guaranteed_balanced_clustering directly

(***************************************************************************)
(* Program constants                                                       *)
(***************************************************************************)
SizeThreshold == 20          \* len(X) < 20: K-means restarts
NumSeeds == 10               \* for seed in range(10)
DefaultOptimalClusters == 4  \* self.optimal_clusters = 4
MinClusterTracks == 4        \* len(processed_tracks) < 4: simplified analysis
NoiseLabel == 0 - 1          \* -1: unassigned / noise
SampleLimit == 10            \* sorted_tracks[:10]
BatchSize == 50              \* artist_ids_list[i:i+50]
UmapThreshold == 10          \* n_samples < 10
PcaComponents == 2           \* PCA(n_components=2)
FreshDays == 7               \* timedelta(days=7)
AdvancedMinItems == 5        \* len(playlist_tracks) < 5
SimpleMinTracks == 3         \* len(tracks) < 3

NoneLabels == << >>

VARIABLES
    analyzer,         \* the class of the object: "Enhanced" or "Advanced"
    entry,            \* the method called: its name
    playlist,         \* self.tracks: what the metadata of the valid tracks looks like
    pc,               \* position inside the call
    n,                \* len(X) / len(processed_tracks) / len(umap_embedding)
    n_clusters,       \* the n_clusters argument / local
    optimal_clusters, \* self.optimal_clusters
    cluster_labels,   \* analyze_playlist: cluster_labels
    seed,             \* guaranteed_balanced_clustering: loop variable seed
    best_labels,      \* guaranteed_balanced_clustering: best_labels
    best_balance,     \* guaranteed_balanced_clustering: best_balance, as the numerator of a fraction over n
    sorted_centroids, \* per row (in point_order): argsort of its centroid distances
    pos,              \* position in point_order of the next row to assign
    labels,           \* size-constrained branch: labels
    cluster_sizes,    \* size-constrained branch: cluster_sizes
    gb_site,          \* where guaranteed_balanced_clustering was called from
    clusters,         \* analyze_playlist: the values of the dict clusters (lists of rows), in insertion order
    unique_cluster_names, \* analyze_playlist: unique_cluster_names, the value of create_unique_cluster_names
    result,           \* the value returned (a label array or a result object)
    raised,           \* the exception that left the call, or "none"
    np_random,        \* the state of the process-wide generator np.random
    call_pc,          \* per call of generate_adaptive_audio_profile: its position
    cluster_tracks,   \* per call: the cluster_tracks argument
    context_themes,   \* self.context_themes
    playlist_name,    \* self.playlist_name: its words and signs, which single spaces separate
    profile,          \* per call: the local profile
    key,              \* per call: the position of the loop for key in profile
    concurrent,       \* whether the two calls run concurrently
    self_tracks,      \* self.tracks: the playlist items
    artist_data,      \* self.artist_data: the ids it holds an artist for
    artist_ids_list,  \* fetch_artist_data: artist_ids_list
    batch_start,      \* fetch_artist_data: the loop variable i
    requests,         \* sp_client: the batches it was asked for, and which of them it answered
    feature_vectors,  \* self.feature_vectors
    processed_tracks, \* create_enhanced_feature_vectors: processed_tracks
    umap_embedding,   \* self.umap_embedding
    cache,            \* the files of the cache directory: their text and modification time
    now,              \* datetime.now(), in days
    saved,            \* per playlist id and analysis type: the data and the day of the latest save
    call,             \* the call of a cache function or of the endpoint that was made last
    hdbscan_calls,    \* perform_hdbscan_clustering: the fits and the fallback it has called, in order
    max_clusters,     \* analyze_playlist of EnhancedPlaylistAnalysis: the argument max_clusters
    naming            \* create_unique_cluster_names: base_names, the group being processed, final_names, used_names

analysisVars ==
    << analyzer, entry, playlist, pc, n, n_clusters, optimal_clusters, cluster_labels, seed,
       best_labels, best_balance, sorted_centroids, pos, labels,
       cluster_sizes, gb_site, clusters, unique_cluster_names, result, raised >>

profileVars ==
    << np_random, call_pc, cluster_tracks, context_themes, playlist_name, profile, key, concurrent >>

pipelineVars ==
    << self_tracks, artist_data, artist_ids_list, batch_start, requests, feature_vectors, processed_tracks,
       umap_embedding >>

endpointVars == << cache, now, saved, call >>

\* what the methods have called so far, and the locals of the naming loop
historyVars == << hdbscan_calls, max_clusters, naming >>

vars == << analysisVars, profileVars, pipelineVars, endpointVars, historyVars >>

\* all variables but those of the analysis, and all but those of the profiles
besidesAnalysis == << profileVars, pipelineVars, endpointVars, historyVars >>
besidesProfile == << analysisVars, pipelineVars, endpointVars, historyVars >>
besidesPipeline == << profileVars, endpointVars, historyVars >>

\* the variables of the first steps while a later step is entered directly
PipelineIdle ==
    /\ self_tracks = << >>
    /\ artist_data = { }
    /\ artist_ids_list = << >>
    /\ batch_start = 0
    /\ requests = << >>
    /\ feature_vectors = << >>
    /\ processed_tracks = << >>
    /\ umap_embedding = << >>

\* the cache and the endpoint while a method is called on its own
EndpointIdle ==
    /\ cache = << >>
    /\ now = 0
    /\ saved = << >>
    /\ call = << >>

\* no method has called anything yet
HistoryIdle == hdbscan_calls = << >> /\ max_clusters = 0 /\ naming = << >>

\* the profile variables while no profile is synthesized
ProfileIdle ==
    /\ np_random = 0
    /\ call_pc = [ p \in { 1, 2 } |-> "idle" ]
    /\ cluster_tracks = [ p \in { 1, 2 } |-> << >> ]
    /\ context_themes = << >>
    /\ playlist_name = << >>
    /\ profile = [ p \in { 1, 2 } |-> << >> ]
    /\ key = [ p \in { 1, 2 } |-> 0 ]
    /\ concurrent = FALSE

gbVars == << seed, best_labels, best_balance, sorted_centroids, pos, labels, cluster_sizes >>

(***************************************************************************)
(* Label arrays                                                            *)
(***************************************************************************)
Range(f) == { f[i] : i \in DOMAIN f }

Min(S) == CHOOSE x \in S : \A y \in S : x <= y
Max(S) == CHOOSE x \in S : \A y \in S : x >= y

RECURSIVE NonDecreasing(_, _)
NonDecreasing(len, vals) ==
    IF len = 0 THEN { << >> }
    ELSE UNION { { Append(s, v) : v \in { w \in vals : Len(s) = 0 \/ w >= s[Len(s)] } } :
                 s \in NonDecreasing(len - 1, vals) }

Reverse(s) == [ i \in 1..Len(s) |-> s[Len(s) + 1 - i] ]

\* The data of a playlist of SizeThreshold or more rows comes in runs of
\* BlockRows neighbouring rows (the last run takes the remainder) that a
\* clustering library keeps together; smaller playlists are labelled row by row.
Blocks(rows) == IF rows < SizeThreshold THEN rows ELSE rows \div BlockRows

BlockOf(i, rows) ==
    IF rows < SizeThreshold THEN i ELSE Min({ Blocks(rows), ((i - 1) \div BlockRows) + 1 })

Spread(s, rows) == [ i \in 1..rows |-> s[BlockOf(i, rows)] ]

\* the label arrays of the rows, over the label values vals, that the model draws
SortedLabelArrays(rows, vals) == { Spread(s, rows) : s \in NonDecreasing(Blocks(rows), vals) }

LabelArrays(rows, vals) ==
    SortedLabelArrays(rows, vals) \cup { Reverse(s) : s \in SortedLabelArrays(rows, vals) }

\* np.unique(labels, return_counts=True): the count of one label value
Counts(lab, v) == Cardinality({ i \in DOMAIN lab : lab[i] = v })

\* np.max(counts)
MaxCount(lab) == Max({ Counts(lab, v) : v \in Range(lab) })

\* outcome of a library call: a label array, or an exception
Returned(lab) == [ ok |-> TRUE, labels |-> lab ]
Raised == [ ok |-> FALSE, labels |-> NoneLabels ]

\* KMeans(n_clusters=k).fit_predict on rows rows: ValueError when rows < k;
\* otherwise labels in 0..k-1 (fewer than k distinct values when the data has
\* fewer than k distinct points), or an exception of the library.  The rows
\* are taken in the order of their K-means labels.
KMeans(rows, k) ==
    IF rows < k THEN { Raised }
    ELSE { Raised } \cup { Returned(lab) : lab \in SortedLabelArrays(rows, 0..(k - 1)) }

(***************************************************************************)
(* EnhancedPlaylistAnalysis.guaranteed_balanced_clustering                 *)
(***************************************************************************)
\* where control goes when guaranteed_balanced_clustering returns lab
gb_return(lab) ==
    IF gb_site = "direct"
    THEN /\ pc' = "returned"
         /\ result' = lab
         /\ UNCHANGED << cluster_labels, raised >>
    ELSE /\ pc' = "organize"
         /\ cluster_labels' = lab
         /\ UNCHANGED << result, raised >>

\* where control goes when guaranteed_balanced_clustering raises
gb_raise ==
    CASE gb_site = "direct" ->
            /\ pc' = "raised"
            /\ raised' = "ValueError"
            /\ UNCHANGED << cluster_labels, result, gb_site >>
      [] gb_site = "try" ->          \* except Exception as e: fall back to guaranteed method
            /\ pc' = "gb_enter"
            /\ gb_site' = "except"
            /\ UNCHANGED << cluster_labels, result, raised >>
      [] gb_site = "except" ->       \* except Exception as e2: simplified analysis
            /\ pc' = "simplified"
            /\ UNCHANGED << cluster_labels, result, raised, gb_site >>

\* the rows' nearest centroids, by the shape of the data
NearestShapes == { "first", "last", "round_robin", "halves" }

Nearest(shape, p, k, rows) ==
    CASE shape = "first" -> 0
      [] shape = "last" -> k - 1
      [] shape = "round_robin" -> (p - 1) % k
      [] shape = "halves" -> IF 2 * p <= rows THEN 0 ELSE k - 1

\* np.argsort(centroid_distances[idx]): a permutation of the centroids
ArgsortCentroids(shape, step, p, k, rows) ==
    [ j \in 1..k |-> (Nearest(shape, p, k, rows) + (j - 1) * step) % k ]

\* target_sizes = [target_size + 1 if i < remainder else target_size ...]
target_sizes(rows, k) ==
    [ i \in 0..(k - 1) |-> IF i < rows % k THEN (rows \div k) + 1 ELSE rows \div k ]

\* lines 1216-1218: entry, choice of the branch
guaranteed_balanced_clustering_enter ==
    /\ pc = "gb_enter"
    /\ IF n < SizeThreshold \/ n_clusters <= 1
       THEN /\ pc' = "gb_restarts"
            /\ best_balance' = 0
            /\ best_labels' = NoneLabels
            /\ seed' = 0
            /\ UNCHANGED << sorted_centroids, pos, labels, cluster_sizes, gb_site,
                            cluster_labels, result, raised >>
       ELSE \* lines 1237-1265: scaling, KMeans fit for the centroids, distances
            \E out \in KMeans(n, n_clusters) :
              IF ~out.ok
              THEN /\ gb_raise
                   /\ UNCHANGED << seed, best_labels, best_balance, sorted_centroids,
                                   pos, labels, cluster_sizes >>
              ELSE \E shape \in NearestShapes, step \in { 1, n_clusters - 1 } :
                   /\ sorted_centroids' =
                         [ p \in 1..n |-> ArgsortCentroids(shape, step, p, n_clusters, n) ]
                   /\ labels' = [ p \in 1..n |-> NoiseLabel ]
                   /\ cluster_sizes' = [ i \in 0..(n_clusters - 1) |-> 0 ]
                   /\ pos' = 1
                   /\ pc' = "gb_assign"
                   /\ UNCHANGED << seed, best_labels, best_balance, gb_site,
                                   cluster_labels, result, raised >>
    /\ UNCHANGED << analyzer, entry, playlist, n, n_clusters, optimal_clusters, clusters, unique_cluster_names >>
    /\ UNCHANGED besidesAnalysis

\* lines 1220-1231: one restart of K-means with random_state=seed
guaranteed_balanced_clustering_restart ==
    /\ pc = "gb_restarts"
    /\ seed < NumSeeds
    /\ \E out \in KMeans(n, Max({ 2, n_clusters })) :
         IF ~out.ok
         THEN /\ gb_raise
              /\ UNCHANGED << seed, best_labels, best_balance >>
         ELSE LET balance == n - MaxCount(out.labels)   \* 1.0 - max_ratio, times n
              IN /\ IF balance > best_balance
                    THEN /\ best_balance' = balance
                         /\ best_labels' = out.labels
                    ELSE UNCHANGED << best_balance, best_labels >>
                 /\ seed' = seed + 1
                 /\ UNCHANGED << pc, gb_site, cluster_labels, result, raised >>
    /\ UNCHANGED << analyzer, entry, playlist, n, n_clusters, optimal_clusters, sorted_centroids,
                    pos, labels, cluster_sizes, clusters, unique_cluster_names >>
    /\ UNCHANGED besidesAnalysis

\* line 1233: return best_labels
guaranteed_balanced_clustering_return_best ==
    /\ pc = "gb_restarts"
    /\ seed = NumSeeds
    /\ gb_return(best_labels)
    /\ UNCHANGED << analyzer, entry, playlist, n, n_clusters, optimal_clusters, gb_site, clusters, unique_cluster_names >>
    /\ UNCHANGED gbVars
    /\ UNCHANGED besidesAnalysis

\* the first centroid of the order that still has room, or -1
FirstWithRoom(order, sizes, targets) ==
    IF \E j \in DOMAIN order : sizes[order[j]] < targets[order[j]]
    THEN order[Min({ j \in DOMAIN order : sizes[order[j]] < targets[order[j]] })]
    ELSE NoiseLabel

\* lines 1268-1282: one iteration of the first pass
guaranteed_balanced_clustering_assign ==
    /\ pc = "gb_assign"
    /\ pos <= n
    /\ LET targets == target_sizes(n, n_clusters)
           order == sorted_centroids[pos]
           best_centroid == order[1]
           chosen == IF cluster_sizes[best_centroid] < targets[best_centroid]
                     THEN best_centroid
                     ELSE FirstWithRoom(order, cluster_sizes, targets)
       IN IF chosen # NoiseLabel
          THEN /\ labels' = [ labels EXCEPT ![pos] = chosen ]
               /\ cluster_sizes' = [ cluster_sizes EXCEPT ![chosen] = @ + 1 ]
          ELSE UNCHANGED << labels, cluster_sizes >>
    /\ pos' = pos + 1
    /\ UNCHANGED << analyzer, entry, playlist, pc, n, n_clusters, optimal_clusters, cluster_labels,
                    seed, best_labels, best_balance, sorted_centroids, gb_site, clusters, unique_cluster_names,
                    result, raised >>
    /\ UNCHANGED besidesAnalysis

\* np.argmin(cluster_sizes)
ArgMin(sizes) == Min({ j \in DOMAIN sizes : \A i \in DOMAIN sizes : sizes[j] <= sizes[i] })

\* lines 1285-1297: rows the first pass left unassigned
RECURSIVE AssignLeftover(_, _, _)
AssignLeftover(lab, sizes, targets) ==
    IF \A p \in DOMAIN lab : lab[p] # NoiseLabel THEN lab
    ELSE LET p == Min({ q \in DOMAIN lab : lab[q] = NoiseLabel })
             withRoom == { j \in DOMAIN sizes : sizes[j] < targets[j] }
             j == IF withRoom # {} THEN Min(withRoom) ELSE ArgMin(sizes)
         IN AssignLeftover([ lab EXCEPT ![p] = j ], [ sizes EXCEPT ![j] = @ + 1 ], targets)

\* lines 1284-1304: leftover rows, then return labels
guaranteed_balanced_clustering_finish ==
    /\ pc = "gb_assign"
    /\ pos > n
    /\ gb_return(AssignLeftover(labels, cluster_sizes, target_sizes(n, n_clusters)))
    /\ UNCHANGED << analyzer, entry, playlist, n, n_clusters, optimal_clusters, gb_site, clusters, unique_cluster_names >>
    /\ UNCHANGED gbVars
    /\ UNCHANGED besidesAnalysis

guaranteed_balanced_clustering ==
    \/ guaranteed_balanced_clustering_enter
    \/ guaranteed_balanced_clustering_restart
    \/ guaranteed_balanced_clustering_return_best
    \/ guaranteed_balanced_clustering_assign
    \/ guaranteed_balanced_clustering_finish

\* a direct call guaranteed_balanced_clustering(X, n_clusters)
BalancedSizes == (1..MaxTracks) \cup (SizeThreshold..(SizeThreshold + MaxExtra))

InitBalanced ==
    /\ HistoryIdle
    /\ analyzer = "Enhanced"
    /\ playlist = "bare"
    /\ clusters = << >>
    /\ unique_cluster_names = << >>
    /\ entry = "guaranteed_balanced_clustering"
    /\ pc = "gb_enter"
    /\ gb_site = "direct"
    /\ n \in BalancedSizes
    /\ n_clusters \in 1..MaxK
    /\ optimal_clusters = DefaultOptimalClusters
    /\ cluster_labels = NoneLabels
    /\ seed = 0
    /\ best_labels = NoneLabels
    /\ best_balance = 0
    /\ sorted_centroids = << >>
    /\ pos = 0
    /\ labels = << >>
    /\ cluster_sizes = << >>
    /\ result = NoneLabels
    /\ raised = "none"
    /\ ProfileIdle
    /\ PipelineIdle
    /\ EndpointIdle

NextBalanced ==
    \/ guaranteed_balanced_clustering_enter
    \/ guaranteed_balanced_clustering_restart
    \/ guaranteed_balanced_clustering_return_best
    \/ guaranteed_balanced_clustering_assign
    \/ guaranteed_balanced_clustering_finish

SpecBalanced == InitBalanced /\ [][NextBalanced]_vars

(***************************************************************************)
(* EnhancedPlaylistAnalysis.perform_clustering                             *)
(***************************************************************************)
MaxDbscanClusters == 3       \* DBSCAN / HDBSCAN label values are drawn from -1 .. MaxDbscanClusters - 1

\* the non-negative labels are 0..m-1 for some m
DenseNonNegative(lab) ==
    LET used == Range(lab) \ { NoiseLabel }
    IN used = 0..(Cardinality(used) - 1)

\* silhouette_score raises ValueError unless 2 <= n_labels <= n_samples - 1
SilhouetteOk(lab, rows) ==
    /\ Cardinality(Range(lab)) >= 2
    /\ Cardinality(Range(lab)) <= rows - 1

\* AgglomerativeClustering(n_clusters=k).fit_predict: exactly k clusters
Agglomerative(rows, k) ==
    IF rows < k THEN { Raised }
    ELSE { Raised } \cup
         { Returned(lab) : lab \in { l \in LabelArrays(rows, 0..(k - 1)) : Range(l) = 0..(k - 1) } }

\* min_samples=min(3, len(X_scaled) // 5)
DbscanMinSamples(rows) == Min({ 3, rows \div 5 })

\* DBSCAN(eps, min_samples).fit_predict: clusters 0..m-1 and noise -1; with
\* min_samples <= 1 every row is a core point and no row is noise; a cluster
\* holds at least min_samples rows
Dbscan(rows) ==
    { Raised } \cup
    { Returned(lab) : lab \in
        { l \in LabelArrays(rows, NoiseLabel..(MaxDbscanClusters - 1)) :
            /\ DenseNonNegative(l)
            /\ (NoiseLabel \in Range(l)) => DbscanMinSamples(rows) >= 2
            /\ \A v \in Range(l) \ { NoiseLabel } : Counts(l, v) >= DbscanMinSamples(rows) } }

\* lines 355-448.  Each of the three methods either raises, or its labels
\* are dropped (a single cluster, or silhouette_score raises), or they are
\* stored with a silhouette value; the stored labels with the largest value
\* are returned (lines 438-441), and K-means with min(n_clusters, n - 1)
\* clusters (lines 443-446, not guarded) when nothing was stored.  The
\* silhouette values are inputs, so any stored label array can be the best.
perform_clustering(rows, k) ==
    { o \in KMeans(rows, k) : o.ok /\ SilhouetteOk(o.labels, rows) }
    \cup { o \in Agglomerative(rows, k) : o.ok /\ SilhouetteOk(o.labels, rows) }
    \cup { o \in Dbscan(rows) : o.ok /\ SilhouetteOk(o.labels, rows) }
    \cup KMeans(rows, Min({ k, rows - 1 }))

(***************************************************************************)
(* EnhancedPlaylistAnalysis.analyze_playlist                               *)
(***************************************************************************)
\* lines 1083-1092: the cluster count derived from the playlist size
DerivedClusters(playlist_size, max_clusters_arg) ==
    IF playlist_size < 15
    THEN (IF playlist_size > 1 THEN Min({ 2, playlist_size - 1 }) ELSE 1)
    ELSE IF playlist_size < 30 THEN 3
    ELSE IF playlist_size < 60 THEN 4
    ELSE IF playlist_size < 100 THEN 5
    ELSE Min({ 6, max_clusters_arg })

\* stats.py line 1642: analyzer.analyze_playlist(sp, max_clusters=6)
EndpointMaxClusters == 6

\* the values of the argument max_clusters the model calls analyze_playlist with: a
\* small one (for the playlists without metadata only) and the one of the endpoint
MaxClustersArguments == { 3, EndpointMaxClusters }

\* lines 1060-1094, after the feature vectors were built for n valid tracks
analyze_playlist_start ==
    /\ entry = "analyze_playlist"
    /\ analyzer = "Enhanced"
    /\ pc = "start"
    /\ IF n < MinClusterTracks
       THEN /\ pc' = "simplified"
            /\ UNCHANGED << optimal_clusters, n_clusters >>
       ELSE /\ optimal_clusters' = IF optimal_clusters = 0     \* if not self.optimal_clusters
                                     THEN DerivedClusters(n, max_clusters)
                                     ELSE optimal_clusters
            /\ n_clusters' = Min({ optimal_clusters', n })
            /\ pc' = "perform_clustering"
    /\ UNCHANGED << analyzer, entry, playlist, n, cluster_labels, gb_site, clusters, unique_cluster_names, result, raised >>
    /\ UNCHANGED gbVars
    /\ UNCHANGED besidesAnalysis

\* lines 1097-1102 and 1112-1116: cluster_labels = self.perform_clustering(n_clusters)
analyze_playlist_perform_clustering ==
    /\ pc = "perform_clustering"
    /\ \E out \in perform_clustering(n, n_clusters) :
         IF out.ok
         THEN /\ cluster_labels' = out.labels
              /\ pc' = "balance_check"
              /\ UNCHANGED gb_site
         ELSE /\ pc' = "gb_enter"           \* except Exception: guaranteed method
              /\ gb_site' = "except"
              /\ UNCHANGED cluster_labels
    /\ UNCHANGED << analyzer, entry, playlist, n, n_clusters, optimal_clusters, clusters, unique_cluster_names, result, raised >>
    /\ UNCHANGED gbVars
    /\ UNCHANGED besidesAnalysis

\* max_ratio > 0.4
Unbalanced(lab) == 5 * MaxCount(lab) > 2 * Len(lab)

\* lines 1104-1111: the balance check.  The old value of cluster_labels is
\* not read again once guaranteed_balanced_clustering is called.
analyze_playlist_balance_check ==
    /\ pc = "balance_check"
    /\ IF Unbalanced(cluster_labels)
       THEN /\ pc' = "gb_enter"
            /\ gb_site' = "try"
            /\ cluster_labels' = NoneLabels
       ELSE /\ pc' = "organize"
            /\ UNCHANGED << gb_site, cluster_labels >>
    /\ UNCHANGED << analyzer, entry, playlist, n, n_clusters, optimal_clusters, clusters, unique_cluster_names, result, raised >>
    /\ UNCHANGED gbVars
    /\ UNCHANGED besidesAnalysis

(***************************************************************************)
(* Track metadata and strings                                              *)
(***************************************************************************)
DigitStr ==
    [ d \in 0..9 |-> CASE d = 0 -> "0" [] d = 1 -> "1" [] d = 2 -> "2" [] d = 3 -> "3"
                       [] d = 4 -> "4" [] d = 5 -> "5" [] d = 6 -> "6" [] d = 7 -> "7"
                       [] d = 8 -> "8" [] d = 9 -> "9" ]

\* str(i), i >= 0
RECURSIVE ToStr(_)
ToStr(i) == IF i < 10 THEN DigitStr[i] ELSE ToStr(i \div 10) \o DigitStr[i % 10]

\* the playlists the model draws: what the tracks' genres, years and artists look like
MetaShapes == { "bare", "rock", "eras", "mixed", "pops" }

\* self.artist_data[track['artist_id']]['genres'] of the track in row r
TrackGenres(shape, r) ==
    CASE shape = "bare" -> << >>
      [] shape = "rock" -> << "rock" >>
      [] shape = "eras" -> << "rock" >>
      [] shape = "mixed" -> IF r % 2 = 1 THEN << "rock" >> ELSE << "pop", "dance pop" >>
      [] shape = "pops" -> IF r % 2 = 1 THEN << "pop" >> ELSE << "dance pop" >>

\* int(track['release_date'][:4]), 0 when the date does not parse
TrackYear(shape, r, rows) ==
    CASE shape = "bare" -> 0
      [] shape = "rock" -> 2000
      [] shape = "eras" -> IF 2 * r <= rows THEN 1975 ELSE 2015
      [] shape = "mixed" -> IF r % 2 = 1 THEN 1995 ELSE 2012
      [] shape = "pops" -> IF r % 3 = 0 THEN 0 ELSE 2010

\* track['primary_artist']
TrackArtist(shape, r) ==
    CASE shape = "bare" -> "Artist " \o ToStr(r)
      [] shape = "rock" -> "Artist A"
      [] shape = "eras" -> "Artist A"
      [] shape = "mixed" -> IF r % 2 = 1 THEN "Artist A" ELSE "Artist B"
      [] shape = "pops" -> "Artist " \o ToStr(r % 3)

\* str.title()
Title(g) ==
    CASE g = "rock" -> "Rock" [] g = "pop" -> "Pop" [] g = "dance pop" -> "Dance Pop"

\* a in b, for the strings above and the terms of similar_pairs
IsSubstring(a, b) ==
    \/ a = b
    \/ a = "pop" /\ b = "dance pop"

similar_pairs ==
    { << "rap", "hip hop" >>, << "electronic", "edm" >>, << "rock", "metal" >>,
      << "pop", "dance pop" >>, << "r&b", "soul" >>, << "country", "folk" >> }

\* the distinct elements of a sequence, in the order of their first occurrence
RECURSIVE FirstSeen(_)
FirstSeen(seq) ==
    IF seq = << >> THEN << >>
    ELSE LET front == FirstSeen(SubSeq(seq, 1, Len(seq) - 1))
             last == seq[Len(seq)]
         IN IF last \in Range(front) THEN front ELSE Append(front, last)

CountIn(seq, x) == Cardinality({ i \in DOMAIN seq : seq[i] = x })

\* the sequence items in the stable order given by Before(i, j): item i sorts before item j
StableSort(items, Before(_, _)) ==
    LET rank(i) == Cardinality({ j \in DOMAIN items :
                                   Before(j, i) \/ (~Before(i, j) /\ j < i) })
    IN [ r \in 1..Len(items) |-> items[CHOOSE i \in DOMAIN items : rank(i) = r - 1] ]

RECURSIVE Flatten(_)
Flatten(seqs) == IF seqs = << >> THEN << >> ELSE seqs[1] \o Flatten(Tail(seqs))

\* Counter.most_common(): the distinct genres of the tracks, by falling count
GenreMostCommon(tracks, shape) ==
    LET occ == Flatten([ i \in DOMAIN tracks |-> TrackGenres(shape, tracks[i]) ])
        keys == FirstSeen(occ)
    IN StableSort(keys, LAMBDA i, j : CountIn(occ, keys[i]) > CountIn(occ, keys[j]))

\* the parsed years of the tracks
TrackYears(tracks, shape, rows) ==
    LET all == [ i \in DOMAIN tracks |-> TrackYear(shape, tracks[i], rows) ]
    IN SelectSeq(all, LAMBDA y : y > 0)

RECURSIVE SumSeq(_)
SumSeq(seq) == IF seq = << >> THEN 0 ELSE seq[1] + SumSeq(Tail(seq))

(***************************************************************************)
(* EnhancedPlaylistAnalysis.create_cluster_name                            *)
(***************************************************************************)
\* generate_enhanced_audio_profile draws from np.random, so what a profile
\* looks like to the thresholds of a caller is an input of each call
Looks == << "energetic", "calm", "uptempo", "downtempo" >>

ProfileOracles == [ name : 0..3, diff : 0..3, vary : BOOLEAN ]

\* the look of the profile generated at the call site for cluster idx
Look(oracle, site, idx) ==
    Looks[((oracle[site] + (IF oracle.vary THEN idx + 1 ELSE 0)) % 4) + 1]

\* lines 938-1057; tracks is the sequence of rows of the cluster
create_cluster_name(cluster_idx, tracks, shape, rows, oracle) ==
    LET prefix == "Cluster " \o ToStr(cluster_idx + 1)
        look == Look(oracle, "name", cluster_idx)
        occ == Flatten([ i \in DOMAIN tracks |-> TrackGenres(shape, tracks[i]) ])
        common == GenreMostCommon(tracks, shape)
        top_genres == SubSeq(common, 1, Min({ 5, Len(common) }))
        primary == top_genres[1]
        \* lines 981-1001: the genres after the first that are neither redundant nor similar
        good == { i \in 2..Len(top_genres) :
                    /\ ~IsSubstring(top_genres[i], primary)
                    /\ ~IsSubstring(primary, top_genres[i])
                    /\ ~\E pair \in similar_pairs :
                          \/ IsSubstring(pair[1], top_genres[i]) /\ IsSubstring(pair[2], primary)
                          \/ IsSubstring(pair[2], top_genres[i]) /\ IsSubstring(pair[1], primary) }
        artists == [ i \in DOMAIN tracks |-> TrackArtist(shape, tracks[i]) ]
        artist_keys == FirstSeen(artists)
        top_artist == StableSort(artist_keys,
                          LAMBDA i, j : CountIn(artists, artist_keys[i]) >
                                        CountIn(artists, artist_keys[j]))[1]
        years == TrackYears(tracks, shape, rows)
    IN IF tracks = << >> THEN prefix
       ELSE IF top_genres # << >>
       THEN IF Len(top_genres) = 1 \/ 10 * CountIn(occ, primary) > 7 * Len(tracks)
            THEN prefix \o ": " \o Title(primary)
            ELSE IF good # {}
            THEN prefix \o ": " \o Title(primary) \o " & " \o Title(top_genres[Min(good)])
            ELSE prefix \o ": " \o
                 (CASE look = "energetic" -> "Energetic "
                    [] look = "calm" -> "Chill "
                    [] OTHER -> "") \o Title(primary)
       ELSE IF CountIn(artists, top_artist) > 1 /\ 10 * CountIn(artists, top_artist) > 3 * Len(tracks)
       THEN prefix \o ": " \o top_artist \o "'s Sound"
       ELSE IF years # << >> /\ 10 * Len(years) > 3 * Len(tracks)
       THEN prefix \o ": " \o ToStr(((SumSeq(years) \div Len(years)) \div 10) * 10) \o "s Music"
       ELSE IF Len(tracks) >= 2 /\ look \in { "energetic", "calm" }
       THEN prefix \o ": " \o (IF look = "energetic" THEN "Energetic" ELSE "Calm") \o " Tracks"
       ELSE prefix \o ": Music Group " \o ToStr(cluster_idx + 1)

(***************************************************************************)
(* EnhancedPlaylistAnalysis.create_unique_cluster_names                    *)
(***************************************************************************)
\* clusters = {}: the labels in the order of their first row (lines 1122-1126)
ClusterKeys(lab) == FirstSeen(lab)

\* a variant of ClusterTracks that loses the first row of the playlist
ClusterTracksWithoutFirstRow(lab, label) ==
    SelectSeq([ r \in 1..Len(lab) |-> r ], LAMBDA r : r > 1 /\ lab[r] = label)

\* clusters[label]: the rows of the label, in playlist order
ClusterTracks(lab, label) ==
    SelectSeq([ r \in 1..Len(lab) |-> r ], LAMBDA r : lab[r] = label)

\* final_names[idx] = name; used_names.add(name)
NameIt(st, idx, name) ==
    [ final |-> (idx :> name) @@ st.final, used |-> st.used \cup { name } ]

\* counter += 1; name = f"{original_name} {counter}" while name in used_names
RECURSIVE NextFree(_, _, _)
NextFree(original_name, counter, used_names) ==
    LET name == original_name \o " " \o ToStr(counter)
    IN IF name \notin used_names THEN name
       ELSE NextFree(original_name, counter + 1, used_names)

Qualified(original_name, used_names) ==
    IF original_name \notin used_names THEN original_name
    ELSE NextFree(original_name, 2, used_names)

\* lines 1415-1436
RECURSIVE EraLoop(_, _, _, _, _, _)
EraLoop(sorted_clusters, i, st, base_name, shape, rows) ==
    IF i > Len(sorted_clusters) THEN st
    ELSE LET years == TrackYears(sorted_clusters[i].tracks, shape, rows)
             decade == ((SumSeq(years) \div Len(years)) \div 10) * 10
             decade_name == base_name \o " (" \o ToStr(decade) \o "s)"
             era_name == IF decade_name \notin st.used THEN decade_name
                         ELSE IF i = 1 THEN base_name \o " (Early)"
                         ELSE IF i = Len(sorted_clusters) THEN base_name \o " (Recent)"
                         ELSE base_name \o " (Mid-Era)"
         IN EraLoop(sorted_clusters, i + 1,
                    NameIt(st, sorted_clusters[i].idx, Qualified(era_name, st.used)),
                    base_name, shape, rows)

\* lines 1371-1436; cl is the list of (idx, tracks) pairs
_differentiate_by_era(cl, st, base_name, shape, rows) ==
    IF Len(cl) <= 1 THEN st
    ELSE LET with_years == SelectSeq(cl, LAMBDA c : TrackYears(c.tracks, shape, rows) # << >>)
             total(c) == SumSeq(TrackYears(c.tracks, shape, rows))
             count(c) == Len(TrackYears(c.tracks, shape, rows))
             sorted_clusters ==
                 StableSort(with_years,
                     LAMBDA i, j : total(with_years[i]) * count(with_years[j]) <
                                   total(with_years[j]) * count(with_years[i]))
             oldest_name == base_name \o " (Classic)"
             newest_name == base_name \o " (Modern)"
             st1 == IF oldest_name \notin st.used
                    THEN NameIt(st, sorted_clusters[1].idx, oldest_name) ELSE st
             st2 == IF newest_name \notin st1.used
                    THEN NameIt(st1, sorted_clusters[2].idx, newest_name) ELSE st1
         IN IF Len(with_years) <= 1 THEN st
            ELSE IF Len(sorted_clusters) = 2 THEN st2
            ELSE EraLoop(sorted_clusters, 1, st, base_name, shape, rows)

\* lines 1464-1480
RECURSIVE SizeLoop(_, _, _, _)
SizeLoop(sorted_clusters, i, st, base_name) ==
    IF i > Len(sorted_clusters) THEN st
    ELSE LET size_name ==
                 IF i = 1 THEN base_name \o " (Primary)"
                 ELSE IF i = 2 THEN base_name \o " (Secondary)"
                 ELSE base_name \o " (" \o ToStr(Len(sorted_clusters[i].tracks)) \o " tracks)"
         IN SizeLoop(sorted_clusters, i + 1,
                     NameIt(st, sorted_clusters[i].idx, Qualified(size_name, st.used)),
                     base_name)

\* lines 1438-1480
_differentiate_by_size(cl, st, base_name) ==
    IF Len(cl) <= 1 THEN st
    ELSE LET sorted_clusters ==
                 StableSort(cl, LAMBDA i, j : Len(cl[i].tracks) > Len(cl[j].tracks))
             main_name == base_name \o " (Main)"
             alt_name == base_name \o " (Alternative)"
             st1 == IF main_name \notin st.used
                    THEN NameIt(st, sorted_clusters[1].idx, main_name) ELSE st
             st2 == IF alt_name \notin st1.used
                    THEN NameIt(st1, sorted_clusters[2].idx, alt_name) ELSE st1
         IN IF Len(sorted_clusters) = 2 THEN st2
            ELSE SizeLoop(sorted_clusters, 1, st, base_name)

\* lines 1496-1524: the descriptor of a generated profile
Descriptor(look) ==
    CASE look = "energetic" -> "Energetic"
      [] look = "calm" -> "Calm"
      [] look = "uptempo" -> "Uptempo"
      [] look = "downtempo" -> "Downtempo"

\* lines 1488-1537
RECURSIVE AudioLoop(_, _, _, _, _)
AudioLoop(cl, i, st, base_name, oracle) ==
    IF i > Len(cl) THEN st
    ELSE IF cl[i].idx \in DOMAIN st.final
    THEN AudioLoop(cl, i + 1, st, base_name, oracle)
    ELSE LET profile_name ==
                 base_name \o " (" \o Descriptor(Look(oracle, "diff", cl[i].idx)) \o ")"
         IN AudioLoop(cl, i + 1,
                      NameIt(st, cl[i].idx, Qualified(profile_name, st.used)),
                      base_name, oracle)

\* lines 1482-1537
_differentiate_by_audio_profile(cl, st, base_name, oracle) ==
    IF Len(cl) <= 1 THEN st ELSE AudioLoop(cl, 1, st, base_name, oracle)

\* lines 1361-1364: counter = 1; while fallback_name in used_names: ...
RECURSIVE NextGroup(_, _, _)
NextGroup(base_name, counter, used_names) ==
    LET name == base_name \o " Group " \o ToStr(counter)
    IN IF name \notin used_names THEN name
       ELSE NextGroup(base_name, counter + 1, used_names)

\* lines 1358-1367
RECURSIVE FallbackLoop(_, _, _, _)
FallbackLoop(remaining, i, st, base_name) ==
    IF i > Len(remaining) THEN st
    ELSE LET fallback_name == base_name \o " Group " \o ToStr(i)
             name == IF fallback_name \notin st.used THEN fallback_name
                     ELSE NextGroup(base_name, 2, st.used)
         IN FallbackLoop(remaining, i + 1, NameIt(st, remaining[i], name), base_name)

\* [(idx, clusters[idx]) for idx in ids]
IndexedClusters(ids, lab) ==
    [ i \in DOMAIN ids |-> [ idx |-> ids[i], tracks |-> ClusterTracks(lab, ids[i]) ] ]

\* remaining_indices = [idx for idx in indices if idx not in final_names]
Remaining(indices, st) == SelectSeq(indices, LAMBDA idx : idx \notin DOMAIN st.final)

\* a variant of DifferentiateRemainingBySize that hands every cluster of the group to the size step
DifferentiateAllBySize(indices, st, base_name, lab) ==
    _differentiate_by_size(IndexedClusters(indices, lab), st, base_name)

\* lines 1346-1350: if remaining_indices: self._differentiate_by_size(...)
DifferentiateRemainingBySize(indices, st, base_name, lab) ==
    IF Remaining(indices, st) # << >>
    THEN _differentiate_by_size(IndexedClusters(Remaining(indices, st), lab), st, base_name)
    ELSE st

\* lines 1352-1356: if remaining_indices: self._differentiate_by_audio_profile(...)
DifferentiateRemainingByAudio(indices, st, base_name, lab, oracle) ==
    IF Remaining(indices, st) # << >>
    THEN _differentiate_by_audio_profile(IndexedClusters(Remaining(indices, st), lab),
                                         st, base_name, oracle)
    ELSE st

\* lines 1358-1367: the clusters that are still without a name
FallbackRemaining(indices, st, base_name) ==
    FallbackLoop(Remaining(indices, st), 1, st, base_name)

\* lines 1340-1367: one group of clusters that share a base name
DifferentiateGroup(indices, st, base_name, lab, shape, oracle) ==
    FallbackRemaining(indices,
        DifferentiateRemainingByAudio(indices,
            DifferentiateRemainingBySize(indices,
                _differentiate_by_era(IndexedClusters(indices, lab), st, base_name,
                                      shape, Len(lab)),
                base_name, lab),
            base_name, lab, oracle),
        base_name)

\* lines 1332-1367: for base_name, indices in name_groups.items()
RECURSIVE ProcessGroups(_, _, _, _, _, _, _)
ProcessGroups(group_names, g, st, base_names, lab, shape, oracle) ==
    IF g > Len(group_names) THEN st
    ELSE LET base_name == group_names[g]
             indices == SelectSeq(ClusterKeys(lab), LAMBDA idx : base_names[idx] = base_name)
             next == IF Len(indices) = 1
                     THEN NameIt(st, indices[1], base_name)
                     ELSE DifferentiateGroup(indices, st, base_name, lab, shape, oracle)
         IN ProcessGroups(group_names, g + 1, next, base_names, lab, shape, oracle)

\* lines 1316-1318: base_names[cluster_idx] = self.create_cluster_name(cluster_idx, tracks)
BaseNames(lab, shape, oracle) ==
    [ idx \in Range(lab) |->
        create_cluster_name(idx, ClusterTracks(lab, idx), shape, Len(lab), oracle) ]

\* a variant of create_unique_cluster_names that gives every cluster the base
\* name of the first one
SharedBaseName(lab, shape, oracle) ==
    [ idx \in Range(lab) |-> BaseNames(lab, shape, oracle)[ClusterKeys(lab)[1]] ]

\* lines 1307-1369: final_names, a function from the labels to their names
create_unique_cluster_names(lab, shape, oracle) ==
    LET base_names == BaseNames(lab, shape, oracle)
        keys == ClusterKeys(lab)
        group_names == FirstSeen([ i \in DOMAIN keys |-> base_names[keys[i]] ])
    IN ProcessGroups(group_names, 1, [ final |-> << >>, used |-> {} ],
                     base_names, lab, shape, oracle).final

(***************************************************************************)
(* EnhancedPlaylistAnalysis.analyze_playlist: the result                   *)
(***************************************************************************)
\* track.get('popularity', 0) of the track in row r
TrackPopularity(shape, r) == IF shape = "bare" THEN 0 ELSE (37 * r) % 100

\* sorted(tracks, key=popularity, reverse=True)[:10]
SampleTracks(tracks, shape) ==
    LET sorted_tracks ==
            StableSort(tracks, LAMBDA i, j : TrackPopularity(shape, tracks[i]) >
                                             TrackPopularity(shape, tracks[j]))
    IN SubSeq(sorted_tracks, 1, Min({ SampleLimit, Len(sorted_tracks) }))

\* the profile looks that the names of a playlist of this shape can read
OraclesFor(shape) ==
    IF shape \in { "bare", "pops" } THEN ProfileOracles
    ELSE { o \in ProfileOracles : o.name = 0 /\ o.diff = 0 /\ ~o.vary }

\* lines 1143-1165: the cluster object of the cluster_idx-th key of clusters
ClusterObject(cluster_idx, label, tracks, names, shape) ==
    [ id |-> cluster_idx + 1,
      name |-> IF label \in DOMAIN names THEN names[label]    \* unique_cluster_names.get(label, ...)
               ELSE "Cluster " \o ToStr(cluster_idx + 1),
      count |-> Len(tracks),
      tracks |-> SampleTracks(tracks, shape),
      total_tracks |-> Len(tracks) ]

\* lines 1121-1126: clusters, the rows of each label, in the order of the labels' first rows
OrganizedClusters(lab) ==
    [ i \in DOMAIN ClusterKeys(lab) |-> ClusterTracks(lab, ClusterKeys(lab)[i]) ]

\* lines 1140-1165: for cluster_idx, tracks in enumerate(clusters.values())
ClusterObjects(lab, organized, names, shape) ==
    [ i \in DOMAIN organized |->
        ClusterObject(i - 1, ClusterKeys(lab)[i], organized[i], names, shape) ]

\* lines 1176-1186: genre_counts.most_common(5) of the tracks, as (genre, count) pairs
GenreDistribution(tracks, shape) ==
    LET occ == Flatten([ i \in DOMAIN tracks |-> TrackGenres(shape, tracks[i]) ])
        common == GenreMostCommon(tracks, shape)
    IN [ i \in 1..Min({ 5, Len(common) }) |-> << common[i], CountIn(occ, common[i]) >> ]

\* lines 1174-1186: cluster_genre_distributions[cluster_idx], read from
\* clusters[cluster_idx], the tracks whose LABEL is cluster_idx
ClusterGenreDistributions(lab, count, shape) ==
    [ cluster_idx \in 0..(count - 1) |->
        GenreDistribution(ClusterTracks(lab, cluster_idx), shape) ]

\* lines 1121-1188.  enumerate(None) raises TypeError (line 1123);
\* clusters[cluster_idx] raises KeyError when cluster_idx is no label (line 1176).
analyze_playlist_build_result ==
    /\ analyzer = "Enhanced"
    /\ pc = "organize"
    /\ IF cluster_labels = NoneLabels
       THEN /\ pc' = "raised"
            /\ raised' = "TypeError"
            /\ UNCHANGED << clusters, unique_cluster_names, result >>
       ELSE \E oracle \in OraclesFor(playlist) :
            /\ clusters' = OrganizedClusters(cluster_labels)
            /\ unique_cluster_names' = create_unique_cluster_names(cluster_labels, playlist, oracle)
            /\ IF \E cluster_idx \in 0..(Len(clusters') - 1) : cluster_idx \notin Range(cluster_labels)
               THEN /\ pc' = "raised"
                    /\ raised' = "KeyError"
                    /\ UNCHANGED result
               ELSE /\ pc' = "returned"
                    /\ result' =
                         [ clusters |-> ClusterObjects(cluster_labels, clusters',
                                                       unique_cluster_names', playlist),
                           total_tracks |-> n,
                           analyzed_tracks |-> n,
                           optimal_clusters |-> Len(clusters'),
                           method |-> "enhanced-balanced-clustering",
                           additional_insights |->
                             [ cluster_genre_distributions |->
                                 ClusterGenreDistributions(cluster_labels, Len(clusters'),
                                                           playlist) ] ]
                    /\ UNCHANGED raised
    /\ UNCHANGED << analyzer, entry, playlist, n, n_clusters, optimal_clusters, cluster_labels, gb_site >>
    /\ UNCHANGED gbVars
    /\ UNCHANGED besidesAnalysis

(***************************************************************************)
(* EnhancedPlaylistAnalysis._create_simplified_analysis                    *)
(***************************************************************************)
\* a variant of ByYearDescending that leaves the rows in playlist order
ByPlaylistOrder(rows, shape) == [ r \in 1..rows |-> r ]

\* lines 1573-1590: the rows by falling year (0 without a date), stable
ByYearDescending(rows, shape) ==
    LET all == [ r \in 1..rows |-> r ]
    IN StableSort(all, LAMBDA i, j : TrackYear(shape, i, rows) > TrackYear(shape, j, rows))

\* round(count / total * 100, 1), in tenths of a percent (ties go to the even tenth)
Percentage(count, total) ==
    LET q == (1000 * count) \div total
        r == (1000 * count) % total
    IN IF 2 * r > total THEN q + 1
       ELSE IF 2 * r = total THEN q + (q % 2)
       ELSE q

\* the cluster objects of lines 1557-1565, 1596-1614 and 1618-1626; percentage in tenths of a percent
SimpleCluster(id, name, tracks, percentage) ==
    [ id |-> id, name |-> name, count |-> Len(tracks), percentage |-> percentage,
      tracks |-> tracks, total_tracks |-> Len(tracks) ]

\* a variant of SimplifiedClusters that splits every playlist in two
AlwaysTwoClusters(rows, shape) ==
    << SubSeq(ByYearDescending(rows, shape), 1, (rows + 1) \div 2),
       SubSeq(ByYearDescending(rows, shape), ((rows + 1) \div 2) + 1, rows) >>

\* lines 1539-1645, for len(processed_tracks) = rows >= 1
SimplifiedClusters(rows, shape) ==
    LET all == [ r \in 1..rows |-> r ]
        by_year == ByYearDescending(rows, shape)
        mid_point == rows \div 2
    IN IF rows <= 3 THEN << all >>
       ELSE IF \E r \in 1..rows : TrackYear(shape, r, rows) > 0
       THEN << SubSeq(by_year, 1, mid_point), SubSeq(by_year, mid_point + 1, rows) >>
       ELSE << all >>

_create_simplified_analysis ==
    /\ analyzer = "Enhanced"
    /\ pc = "simplified"
    /\ clusters' = SimplifiedClusters(n, playlist)
    /\ result' =
         [ clusters |-> IF Len(clusters') = 2
                        THEN << SimpleCluster(1, "Recent Tracks", clusters'[1],
                                              Percentage(Len(clusters'[1]), n)),
                                SimpleCluster(2, "Older Tracks", clusters'[2],
                                              Percentage(Len(clusters'[2]), n)) >>
                        ELSE << SimpleCluster(1, "All Tracks", clusters'[1], 1000) >>,
           total_tracks |-> n,
           analyzed_tracks |-> n,
           optimal_clusters |-> Len(clusters'),
           method |-> "simplified-analysis" ]
    /\ pc' = "returned"
    /\ UNCHANGED << analyzer, entry, playlist, n, n_clusters, optimal_clusters, cluster_labels, gb_site,
                    unique_cluster_names, raised >>
    /\ UNCHANGED gbVars
    /\ UNCHANGED besidesAnalysis

(***************************************************************************)
(* AdvancedPlaylistAnalysis.perform_hdbscan_clustering                     *)
(***************************************************************************)
\* lines 424-435: min_cluster_size by dataset size
HdbscanMinClusterSize(rows) ==
    IF rows < 20 THEN 2 ELSE IF rows < 50 THEN 3 ELSE IF rows < 100 THEN 5 ELSE 10

\* line 467: max_clusters = max(2, min(n_samples // 5, 10))
HdbscanMaxClusters(rows) == Max({ 2, Min({ rows \div 5, 10 }) })

\* hdbscan.HDBSCAN(...).fit_predict: clusters 0..m-1 of at least
\* min_cluster_size rows each, and noise -1
Hdbscan(rows) ==
    { Raised } \cup
    { Returned(lab) : lab \in
        { l \in LabelArrays(rows, NoiseLabel..(MaxDbscanClusters - 1)) :
            /\ DenseNonNegative(l)
            /\ \A v \in Range(l) \ { NoiseLabel } : Counts(l, v) >= HdbscanMinClusterSize(rows) } }

\* lines 487-489: noise_ratio > 0.4 or len(np.unique(cluster_labels)) > max_clusters
TooNoisyOrTooMany(lab, rows) ==
    \/ 5 * Counts(lab, NoiseLabel) > 2 * rows
    \/ Cardinality(Range(lab)) > HdbscanMaxClusters(rows)

\* lines 518-555: each noise row takes the cluster of largest membership or
\* of the nearest centre; to is the cluster the data put the noise rows next to
ReassignNoise(lab, to) ==
    [ i \in DOMAIN lab |-> IF lab[i] = NoiseLabel THEN to ELSE lab[i] ]

\* lines 557-560: mapping = {old: new for new, old in enumerate(np.unique(labels))}
Remap(lab) ==
    [ i \in DOMAIN lab |-> Cardinality({ v \in Range(lab) : v < lab[i] }) ]

\* where control goes when perform_hdbscan_clustering returns lab
hdbscan_return(lab) ==
    /\ cluster_labels' = lab
    /\ pc' = "clustered"

\* lines 495-502: the retry, hdbscan.HDBSCAN(min_cluster_size=2, min_samples=1,
\* cluster_selection_epsilon=0.5).fit_predict
HdbscanRelaxed(rows) ==
    { Raised } \cup
    { Returned(lab) : lab \in
        { l \in LabelArrays(rows, NoiseLabel..(MaxDbscanClusters - 1)) :
            /\ DenseNonNegative(l)
            /\ \A v \in Range(l) \ { NoiseLabel } : Counts(l, v) >= 2 } }

\* np.all(cluster_labels == -1)
AllNoise(lab) == \A i \in DOMAIN lab : lab[i] = NoiseLabel

\* a call of fit_predict with the parameters named, and what the method saw of its
\* labels: whether all of them are noise, and whether lines 487-489 reject them
Fit(params, out) ==
    [ call |-> "fit_predict", params |-> params, ok |-> out.ok,
      all_noise |-> out.ok /\ AllNoise(out.labels),
      rejected |-> out.ok /\ TooNoisyOrTooMany(out.labels, n) ]

\* the call self.perform_gmm_clustering(max_clusters)
GmmCall ==
    [ call |-> "perform_gmm_clustering", params |-> "max_clusters", ok |-> TRUE,
      all_noise |-> FALSE, rejected |-> FALSE ]

\* return self.perform_gmm_clustering(max_clusters), after the fits made
hdbscan_to_gmm(fits) ==
    /\ pc' = "gmm"
    /\ n_clusters' = HdbscanMaxClusters(n)
    /\ hdbscan_calls' = Append(fits, GmmCall)
    /\ UNCHANGED << optimal_clusters, cluster_labels >>

\* lines 514-563: the noise rows are reassigned, the labels remapped and returned
hdbscan_keep(lab, fits) ==
    \E to \in Range(lab) \ { NoiseLabel } :
        \* the reassignment raising inside the try also leads to GMM
        \/ /\ hdbscan_return(Remap(ReassignNoise(lab, to)))
           /\ optimal_clusters' = Cardinality(Range(ReassignNoise(lab, to)))
           /\ hdbscan_calls' = fits
           /\ UNCHANGED n_clusters
        \/ hdbscan_to_gmm(fits)

\* lines 411-573
perform_hdbscan_clustering ==
    /\ analyzer = "Advanced"
    /\ pc = "hdbscan"
    /\ IF n < 5
       THEN /\ hdbscan_return([ i \in 1..n |-> 0 ])       \* np.zeros(n_samples, dtype=int)
            /\ UNCHANGED << optimal_clusters, n_clusters, hdbscan_calls >>
       ELSE \E out \in Hdbscan(n) :
            IF ~out.ok \/ TooNoisyOrTooMany(out.labels, n)                 \* lines 487-489
            THEN hdbscan_to_gmm(<< Fit("adaptive", out) >>)
            ELSE IF AllNoise(out.labels)                                   \* lines 492-507
                 THEN \E again \in HdbscanRelaxed(n) :
                      IF ~again.ok \/ AllNoise(again.labels)
                      THEN hdbscan_to_gmm(<< Fit("adaptive", out), Fit("relaxed", again) >>)
                      ELSE hdbscan_keep(again.labels, << Fit("adaptive", out), Fit("relaxed", again) >>)
                 ELSE hdbscan_keep(out.labels, << Fit("adaptive", out) >>)
    /\ UNCHANGED << analyzer, entry, playlist, n, gb_site, clusters, unique_cluster_names, result, raised >>
    /\ UNCHANGED gbVars
    /\ UNCHANGED << profileVars, pipelineVars, endpointVars, max_clusters, naming >>

(***************************************************************************)
(* AdvancedPlaylistAnalysis.perform_gmm_clustering                         *)
(***************************************************************************)
\* GaussianMixture(n_components).fit_predict: the component of largest
\* responsibility per row; a component can be left without rows
GaussianMixture(rows, n_components) ==
    IF rows < n_components \/ n_components < 1 THEN { Raised }
    ELSE { Raised } \cup { Returned(lab) : lab \in SortedLabelArrays(rows, 0..(n_components - 1)) }

\* lines 582-612: the n_components that the BIC search can choose
GmmComponents(rows, max_components) ==
    LET min_components == Min({ 2, rows - 1 })
        max_c == Min({ max_components, rows - 1 })
    IN IF max_c <= min_components THEN { min_components }
       ELSE min_components..max_c

\* lines 575-633: the final GMM
perform_gmm_clustering ==
    /\ analyzer = "Advanced"
    /\ pc = "gmm"
    /\ \E n_components \in GmmComponents(n, n_clusters) :
       \E out \in GaussianMixture(n, n_components) :
         IF out.ok
         THEN /\ hdbscan_return(out.labels)
              /\ optimal_clusters' = n_components
         ELSE /\ pc' = "last_resort"
              /\ UNCHANGED << optimal_clusters, cluster_labels >>
    /\ UNCHANGED << analyzer, entry, playlist, n, n_clusters, gb_site, clusters, unique_cluster_names,
                    result, raised >>
    /\ UNCHANGED gbVars
    /\ UNCHANGED besidesAnalysis

\* line 640: k = max(2, min(n_samples // 2, 5))
LastResortK(rows) == Max({ 2, Min({ rows \div 2, 5 }) })

\* lines 635-644: except Exception: basic KMeans, not guarded
perform_gmm_clustering_last_resort ==
    /\ analyzer = "Advanced"
    /\ pc = "last_resort"
    /\ \E out \in KMeans(n, LastResortK(n)) :
         IF out.ok
         THEN /\ hdbscan_return(out.labels)
              /\ optimal_clusters' = LastResortK(n)
              /\ UNCHANGED raised
         ELSE /\ pc' = "raised"
              /\ raised' = "ValueError"
              /\ UNCHANGED << optimal_clusters, cluster_labels >>
    /\ UNCHANGED << analyzer, entry, playlist, n, n_clusters, gb_site, clusters, unique_cluster_names, result >>
    /\ UNCHANGED gbVars
    /\ UNCHANGED besidesAnalysis

(***************************************************************************)
(* AdvancedPlaylistAnalysis.analyze_playlist                               *)
(***************************************************************************)
\* lines 1197-1215, after the feature vectors and the embedding were built
advanced_analyze_playlist_start ==
    /\ analyzer = "Advanced"
    /\ entry = "analyze_playlist"
    /\ pc = "start"
    /\ pc' = "hdbscan"
    /\ UNCHANGED << analyzer, entry, playlist, n, n_clusters, optimal_clusters, cluster_labels, gb_site,
                    clusters, unique_cluster_names, result, raised >>
    /\ UNCHANGED gbVars
    /\ UNCHANGED besidesAnalysis

\* lines 1217-1248: the tracks are organized by label; the loop over the
\* clusters calls self._create_descriptive_cluster_name, which the class
\* does not define (line 1291 defines create_descriptive_cluster_name), so
\* the first iteration raises AttributeError
advanced_analyze_playlist_build_result ==
    /\ analyzer = "Advanced"
    /\ pc = "clustered"
    /\ clusters' = [ i \in DOMAIN ClusterKeys(cluster_labels) |->
                       ClusterTracks(cluster_labels, ClusterKeys(cluster_labels)[i]) ]
    /\ IF Len(clusters') > 0
       THEN /\ pc' = "raised"
            /\ raised' = "AttributeError"
            /\ UNCHANGED result
       ELSE /\ pc' = "returned"
            /\ result' = [ clusters |-> << >>, total_tracks |-> n, analyzed_tracks |-> n,
                           optimal_clusters |-> 0, method |-> "hdbscan-umap" ]
            /\ UNCHANGED raised
    /\ UNCHANGED << analyzer, entry, playlist, n, n_clusters, optimal_clusters, cluster_labels, gb_site,
                    unique_cluster_names >>
    /\ UNCHANGED gbVars
    /\ UNCHANGED besidesAnalysis

(***************************************************************************)
(* The analysis of a playlist by either class                              *)
(***************************************************************************)
\* len(processed_tracks)
AnalysisSizes == (1..MaxTracks) \cup (SizeThreshold..(SizeThreshold + MaxExtra))

Init ==
    /\ hdbscan_calls = << >>
    /\ naming = << >>
    /\ analyzer \in { "Enhanced", "Advanced" }
    /\ entry = "analyze_playlist"
    /\ playlist \in MetaShapes
    /\ max_clusters \in IF analyzer = "Advanced" THEN { 0 }
                       ELSE IF playlist = "bare" THEN MaxClustersArguments
                       ELSE { EndpointMaxClusters }
    /\ pc = "start"
    /\ gb_site = "none"
    /\ n \in AnalysisSizes
    /\ analyzer = "Advanced" => n >= PcaComponents    \* perform_umap_reduction has returned
    /\ n_clusters = 0
    /\ optimal_clusters = IF analyzer = "Enhanced" THEN DefaultOptimalClusters ELSE 0
    /\ cluster_labels = NoneLabels
    /\ seed = 0
    /\ best_labels = NoneLabels
    /\ best_balance = 0
    /\ sorted_centroids = << >>
    /\ pos = 0
    /\ labels = << >>
    /\ cluster_sizes = << >>
    /\ clusters = << >>
    /\ unique_cluster_names = << >>
    /\ result = NoneLabels
    /\ raised = "none"
    /\ ProfileIdle
    /\ PipelineIdle
    /\ EndpointIdle

Next ==
    \/ analyze_playlist_start
    \/ analyze_playlist_perform_clustering
    \/ analyze_playlist_balance_check
    \/ guaranteed_balanced_clustering_enter
    \/ guaranteed_balanced_clustering_restart
    \/ guaranteed_balanced_clustering_return_best
    \/ guaranteed_balanced_clustering_assign
    \/ guaranteed_balanced_clustering_finish
    \/ analyze_playlist_build_result
    \/ _create_simplified_analysis
    \/ advanced_analyze_playlist_start
    \/ perform_hdbscan_clustering
    \/ perform_gmm_clustering
    \/ perform_gmm_clustering_last_resort
    \/ advanced_analyze_playlist_build_result

Spec == Init /\ [][Next]_vars

(***************************************************************************)
(* AdvancedPlaylistAnalysis: the audio prof rules.  The seven fields    *)
(* are held in thousandths, the tempo in thousandths of a beat per minute. *)
(***************************************************************************)
ProfileKeys ==
    << "danceability", "energy", "acousticness", "instrumentalness", "valence",
       "speechiness", "liveness", "tempo" >>

\* lines 1180-1195
_get_base_audio_profile ==
    [ danceability |-> 500, energy |-> 500, acousticness |-> 500, instrumentalness |-> 200,
      valence |-> 500, speechiness |-> 100, liveness |-> 200, tempo |-> 115000 ]

\* lines 786-788, weight in thousandths
_weighted_adjust(current_value, target_value, weight) ==
    ((1000 - weight) * current_value + weight * target_value) \div 1000

\* a list of << field, target, weight >> pulls, applied in order
RECURSIVE ApplyPulls(_, _)
ApplyPulls(prof, pulls) ==
    IF pulls = << >> THEN prof
    ELSE ApplyPulls([ prof EXCEPT ![pulls[1][1]] =
                        _weighted_adjust(@, pulls[1][2], pulls[1][3]) ],
                    Tail(pulls))

\* weight * factor, both in thousandths
Scale(weight, factor) == (weight * factor) \div 1000

\* the tracks the model's clusters are made of:
\* genres of the artist, release year (0: no date), popularity, explicit, duration_ms
Catalog ==
    << [ id |-> "t1", genres |-> << "rock" >>, year |-> 1995, popularity |-> 80,
         explicit |-> FALSE, duration_ms |-> 200000 ],
       [ id |-> "t2", genres |-> << "dance pop" >>, year |-> 2016, popularity |-> 40,
         explicit |-> TRUE, duration_ms |-> 100000 ],
       [ id |-> "t3", genres |-> << "classical", "punk rock" >>, year |-> 1955, popularity |-> 10,
         explicit |-> FALSE, duration_ms |-> 400000 ],
       [ id |-> "t4", genres |-> << "trap" >>, year |-> 0, popularity |-> 90,
         explicit |-> TRUE, duration_ms |-> 330000 ] >>

\* term in genre, for the genres of the catalog
GenreTerms(genre) ==
    CASE genre = "rock" -> { "rock" }
      [] genre = "dance pop" -> { "dance", "pop" }
      [] genre = "classical" -> { "classical" }
      [] genre = "punk rock" -> { "punk", "rock" }
      [] genre = "trap" -> { "trap", "rap" }

HasAny(genre, terms) == GenreTerms(genre) \cap terms # {}

\* lines 802-892: the pulls of one genre, weight = count / total_tracks
_apply_genre_adjustments(genre, weight) ==
    LET w(f) == Scale(weight, f)
    IN IF HasAny(genre, { "rock" })
       THEN << << "energy", 750, w(600) >>, << "acousticness", 300, w(500) >>,
               << "liveness", 500, w(400) >> >>
            \o (IF HasAny(genre, { "metal" })
                THEN << << "energy", 900, w(800) >>, << "valence", 400, w(500) >> >>
                ELSE IF HasAny(genre, { "indie" })
                THEN << << "acousticness", 500, w(500) >>, << "instrumentalness", 300, w(400) >> >>
                ELSE << >>)
       ELSE IF HasAny(genre, { "classical", "piano", "orchestra", "composer" })
       THEN << << "acousticness", 900, w(800) >>, << "energy", 300, w(600) >>,
               << "instrumentalness", 900, w(800) >>, << "speechiness", 30, w(900) >> >>
       ELSE IF HasAny(genre, { "electronic", "techno", "house", "edm", "dance" })
       THEN << << "danceability", 800, w(700) >>, << "energy", 850, w(600) >>,
               << "acousticness", 100, w(800) >> >>
            \o (IF HasAny(genre, { "ambient" })
                THEN << << "energy", 300, w(700) >>, << "instrumentalness", 800, w(700) >> >>
                ELSE IF HasAny(genre, { "techno", "house" })
                THEN << << "danceability", 900, w(800) >> >>
                ELSE << >>)
       ELSE IF HasAny(genre, { "hip hop", "hip-hop", "rap", "trap" })
       THEN << << "speechiness", 600, w(700) >>, << "danceability", 750, w(600) >>,
               << "acousticness", 150, w(700) >> >>
            \o (IF HasAny(genre, { "trap" }) THEN << << "energy", 700, w(600) >> >> ELSE << >>)
            \o (IF HasAny(genre, { "gangsta", "hardcore" })
                THEN << << "valence", 400, w(500) >> >> ELSE << >>)
       ELSE IF HasAny(genre, { "jazz" })
       THEN << << "instrumentalness", 700, w(600) >>, << "acousticness", 800, w(600) >>,
               << "energy", 400, w(500) >> >>
       ELSE IF HasAny(genre, { "folk", "acoustic", "singer-songwriter" })
       THEN << << "acousticness", 850, w(800) >>, << "energy", 350, w(600) >>,
               << "instrumentalness", 200, w(500) >>, << "speechiness", 400, w(500) >> >>
       ELSE IF HasAny(genre, { "pop" })
       THEN << << "danceability", 700, w(600) >>, << "valence", 650, w(500) >>,
               << "energy", 700, w(500) >>, << "speechiness", 400, w(500) >> >>
       ELSE IF HasAny(genre, { "r&b", "soul", "funk" })
       THEN << << "danceability", 700, w(600) >>, << "speechiness", 300, w(500) >>,
               << "valence", 600, w(500) >> >>
            \o (IF HasAny(genre, { "funk" })
                THEN << << "energy", 750, w(700) >>, << "valence", 800, w(600) >> >>
                ELSE << >>)
       ELSE IF HasAny(genre, { "country" })
       THEN << << "acousticness", 700, w(600) >>, << "valence", 600, w(500) >>,
               << "energy", 500, w(500) >>, << "instrumentalness", 200, w(600) >> >>
       ELSE IF HasAny(genre, { "latin", "salsa", "reggaeton" })
       THEN << << "danceability", 800, w(700) >>, << "energy", 750, w(600) >>,
               << "valence", 750, w(600) >>, << "speechiness", 500, w(500) >> >>
       ELSE << >>

\* a cluster is the list of its tracks, as indices into the catalog
Track(c, i) == Catalog[c[i]]

\* lines 662-690: the years, popularities, explicit count and durations of the tracks
ProfileYears(c) == SelectSeq([ i \in DOMAIN c |-> Track(c, i).year ], LAMBDA y : y > 0)

Popularities(c) == [ i \in DOMAIN c |-> Track(c, i).popularity ]

ExplicitCount(c) == Cardinality({ i \in DOMAIN c : Track(c, i).explicit })

Durations(c) == [ i \in DOMAIN c |-> Track(c, i).duration_ms ]

\* lines 790-800: _extract_genre_distribution, the genres in the order first seen
GenreOccurrences(c) == Flatten([ i \in DOMAIN c |-> Track(c, i).genres ])

\* lines 696-704: the genre pulls of every genre of the distribution
RECURSIVE GenreStep(_, _, _)
GenreStep(prof, c, genres) ==
    IF genres = << >> THEN prof
    ELSE GenreStep(
           ApplyPulls(prof,
               _apply_genre_adjustments(genres[1],
                   (CountIn(GenreOccurrences(c), genres[1]) * 1000) \div Len(c))),
           c, Tail(genres))

\* four times np.percentile(values, 25 * k), linear interpolation
Percentile4(values, k) ==
    LET sorted == StableSort(values, LAMBDA i, j : values[i] < values[j])
        position == (Len(values) - 1) * k
        lo == (position \div 4) + 1
        hi == Min({ lo + 1, Len(values) })
    IN 4 * sorted[lo] + (position % 4) * (sorted[hi] - sorted[lo])

Abs(x) == IF x < 0 THEN 0 - x ELSE x

\* lines 706-728
PopularityStep(prof, c) ==
    LET pops == Popularities(c)
        total == SumSeq(pops)
        above(k) == 4 * total > Len(pops) * Percentile4(pops, k)      \* avg > percentile
        below(k) == 4 * total < Len(pops) * Percentile4(pops, k)
        pop_factor == Abs(((total * 1000) \div Len(pops)) - 50000) \div 50
        w(f) == Scale(pop_factor, f)
    IN IF above(3)
       THEN ApplyPulls(prof, << << "danceability", 700, w(700) >>, << "energy", 700, w(600) >>,
                                   << "valence", 700, w(500) >> >>)
       ELSE IF above(2)
       THEN ApplyPulls(prof, << << "danceability", 650, w(500) >>, << "energy", 650, w(400) >>,
                                   << "valence", 650, w(300) >> >>)
       ELSE IF below(1)
       THEN ApplyPulls(prof, << << "danceability", 400, w(300) >>,
                                   << "instrumentalness", 400, w(500) >>,
                                   << "acousticness", 600, w(400) >> >>)
       ELSE prof

\* lines 902-950: the pulls of the era of the mean year
EraPulls(years) ==
    LET total == SumSeq(years)
        since(y) == total >= y * Len(years)                           \* avg_year >= y
    IN IF since(2010)
       THEN << << "acousticness", 300, 500 >>, << "danceability", 700, 500 >> >>
            \o (IF since(2015)
                THEN << << "speechiness", 400, 500 >>, << "energy", 650, 500 >> >> ELSE << >>)
       ELSE IF since(2000)
       THEN << << "danceability", 650, 400 >>, << "energy", 700, 400 >>,
               << "acousticness", 350, 400 >> >>
       ELSE IF since(1990)
       THEN << << "energy", 750, 400 >>, << "danceability", 600, 400 >>,
               << "valence", 550, 300 >> >>
       ELSE IF since(1980)
       THEN << << "energy", 800, 500 >>, << "danceability", 700, 500 >>,
               << "valence", 700, 400 >>, << "acousticness", 250, 500 >> >>
       ELSE IF since(1970)
       THEN << << "energy", 700, 400 >>, << "liveness", 500, 400 >>, << "valence", 650, 300 >> >>
       ELSE IF since(1960)
       THEN << << "acousticness", 500, 400 >>, << "energy", 600, 400 >>,
               << "valence", 700, 400 >> >>
       ELSE << << "acousticness", 700, 600 >>, << "energy", 400, 500 >>,
               << "instrumentalness", 400, 400 >>, << "liveness", 600, 400 >> >>

\* lines 894-961
_adjust_by_era(prof, years) ==
    IF years = << >> THEN prof
    ELSE LET pulled == ApplyPulls(prof, EraPulls(years))
             year_range == Max(Range(years)) - Min(Range(years))
         IN IF year_range > 20
            THEN [ field \in DOMAIN pulled |->
                     IF field # "tempo" /\ pulled[field] < 300 THEN 300
                     ELSE IF field # "tempo" /\ pulled[field] > 700 THEN 700
                     ELSE pulled[field] ]
            ELSE pulled

\* lines 734-743
ExplicitStep(prof, c) ==
    LET speech_boost == Min({ 300, (ExplicitCount(c) * 500) \div Len(c) })
    IN IF ExplicitCount(c) * 10 > Len(c)
       THEN [ prof EXCEPT
                !.speechiness = Min({ 900, @ + speech_boost }),
                !.acousticness = Max({ 100, @ - (speech_boost \div 2) }) ]
       ELSE prof

\* lines 745-757
DurationStep(prof, c) ==
    LET total == SumSeq(Durations(c))
    IN IF total < 2 * 60000 * Len(c)
       THEN [ prof EXCEPT !.energy = Min({ 950, @ + 100 }),
                             !.danceability = Min({ 900, @ + 100 }) ]
       ELSE IF total > 5 * 60000 * Len(c)
       THEN [ prof EXCEPT !.energy = Max({ 50, @ - 100 }),
                             !.instrumentalness = Min({ 900, @ + 150 }) ]
       ELSE prof

\* lines 969-1010: the pulls of one mood word, weight = 0.5
MoodPulls(mood) ==
    LET w(f) == Scale(500, f)
    IN IF mood \in { "chill", "relax", "relaxing", "calm", "peaceful" }
       THEN << << "energy", 250, 500 >>, << "tempo", 85000, w(500) >>,
               << "acousticness", 700, w(700) >>, << "valence", 500, w(500) >> >>
       ELSE IF mood \in { "energetic", "party", "upbeat", "vibrant", "hype" }
       THEN << << "energy", 850, 500 >>, << "tempo", 125000, w(500) >>,
               << "danceability", 800, w(700) >>, << "valence", 750, w(600) >> >>
       ELSE IF mood \in { "focus", "study", "concentration", "work", "productivity" }
       THEN << << "instrumentalness", 600, w(700) >>, << "energy", 400, w(600) >>,
               << "speechiness", 100, w(800) >> >>
       ELSE IF mood \in { "sad", "melancholy", "emotional", "somber" }
       THEN << << "valence", 250, w(800) >>, << "tempo", 90000, w(500) >>,
               << "acousticness", 600, w(500) >> >>
       ELSE IF mood \in { "happy", "joy", "cheerful", "uplifting" }
       THEN << << "valence", 800, w(800) >>, << "energy", 700, w(600) >> >>
       ELSE IF mood \in { "dreamy", "atmospheric", "ambient" }
       THEN << << "instrumentalness", 700, w(700) >>, << "acousticness", 600, w(600) >>,
               << "energy", 300, w(700) >> >>
       ELSE IF mood \in { "dark", "intense", "aggressive", "angry" }
       THEN << << "valence", 200, w(700) >>, << "energy", 800, w(700) >>,
               << "acousticness", 200, w(600) >> >>
       ELSE << >>

\* lines 1012-1040: the pulls of one activity word, weight = 0.5
ActivityPulls(activity) ==
    LET w(f) == Scale(500, f)
    IN IF activity \in { "workout", "run", "gym", "exercise", "cardio" }
       THEN << << "energy", 900, w(800) >>, << "tempo", 130000, w(700) >>,
               << "valence", 700, w(600) >>, << "danceability", 800, w(600) >> >>
       ELSE IF activity \in { "sleep", "relax", "meditation", "yoga" }
       THEN << << "energy", 100, w(900) >>, << "tempo", 70000, w(800) >>,
               << "acousticness", 800, w(700) >>, << "instrumentalness", 700, w(700) >> >>
       ELSE IF activity \in { "dance", "party", "club" }
       THEN << << "danceability", 900, w(900) >>, << "energy", 850, w(800) >>,
               << "tempo", 120000, w(600) >> >>
       ELSE IF activity \in { "drive", "road", "trip", "travel" }
       THEN << << "energy", 700, w(600) >>, << "valence", 650, w(500) >> >>
       ELSE IF activity \in { "coding", "reading", "study", "work" }
       THEN << << "instrumentalness", 700, w(700) >>, << "speechiness", 100, w(800) >> >>
       ELSE << >>

\* lines 1042-1082: the pulls of one decade word, weight = 0.4
DecadePulls(decade) ==
    LET w(f) == Scale(400, f)
    IN IF decade \in { "50s", "fifties", "retro", "vintage", "oldies" }
       THEN << << "acousticness", 750, 400 >>, << "valence", 600, 400 >>,
               << "tempo", 95000, w(500) >> >>
       ELSE IF decade \in { "60s", "sixties" }
       THEN << << "valence", 650, 400 >>, << "acousticness", 600, 400 >>,
               << "tempo", 105000, w(500) >> >>
       ELSE IF decade \in { "70s", "seventies" }
       THEN << << "valence", 700, 400 >>, << "energy", 650, 400 >>,
               << "tempo", 110000, w(500) >> >>
       ELSE IF decade \in { "80s", "eighties" }
       THEN << << "energy", 750, 400 >>, << "valence", 700, 400 >>,
               << "acousticness", 300, 400 >>, << "tempo", 115000, w(500) >> >>
       ELSE IF decade \in { "90s", "nineties" }
       THEN << << "energy", 700, 400 >>, << "danceability", 650, 400 >>,
               << "tempo", 105000, w(500) >> >>
       ELSE IF decade \in { "00s", "aughts", "2000s" }
       THEN << << "energy", 650, 400 >>, << "danceability", 700, 400 >>,
               << "tempo", 110000, w(500) >> >>
       ELSE IF decade \in { "10s", "tens", "2010s" }
       THEN << << "energy", 700, 400 >>, << "speechiness", 400, 400 >>,
               << "acousticness", 400, 400 >>, << "tempo", 105000, w(500) >> >>
       ELSE IF decade \in { "20s", "twenties", "2020s", "modern" }
       THEN << << "speechiness", 450, 400 >>, << "danceability", 700, 400 >>,
               << "tempo", 100000, w(500) >> >>
       ELSE << >>

\* self.context_themes of the playlists the model draws
ContextThemes ==
    { [ mood |-> << >>, activity |-> << >>, decade |-> << >> ],
      [ mood |-> << >>, activity |-> << "workout", "gym" >>, decade |-> << >> ],
      [ mood |-> << "chill", "sad" >>, activity |-> << "sleep" >>, decade |-> << "retro" >> ] }

\* lines 963-1083
_adjust_profile_by_context(prof, themes) ==
    LET pulls(words, Table(_)) == Flatten([ i \in DOMAIN words |-> Table(words[i]) ])
    IN ApplyPulls(prof,
           pulls(themes.mood, MoodPulls) \o pulls(themes.activity, ActivityPulls)
           \o pulls(themes.decade, DecadePulls))

\* lines 1093-1130: the tempo and weight that a genre of the distribution contributes
GenreTempo(genre) ==
    IF HasAny(genre, { "edm", "dance", "techno", "house", "trance" }) THEN << 128 >>
    ELSE IF HasAny(genre, { "hip hop", "hip-hop", "rap", "trap" }) THEN << 95 >>
    ELSE IF HasAny(genre, { "rock" })
    THEN (IF HasAny(genre, { "metal", "hard" }) THEN << 140 >>
          ELSE IF HasAny(genre, { "punk" }) THEN << 160 >> ELSE << 120 >>)
    ELSE IF HasAny(genre, { "jazz" }) THEN << 110 >>
    ELSE IF HasAny(genre, { "classical", "piano", "symphony" }) THEN << 85 >>
    ELSE IF HasAny(genre, { "folk", "acoustic", "indie" }) THEN << 100 >>
    ELSE IF HasAny(genre, { "soul", "r&b", "funk" }) THEN << 105 >>
    ELSE IF HasAny(genre, { "pop" }) THEN << 115 >>
    ELSE << >>

\* lines 1132-1151: the tempo the era of the mean year contributes, weight 0.5
EraTempo(years) ==
    LET total == SumSeq(years)
        since(y) == total >= y * Len(years)
    IN IF since(2010) THEN 105 ELSE IF since(2000) THEN 110 ELSE IF since(1990) THEN 115
       ELSE IF since(1980) THEN 120 ELSE IF since(1970) THEN 110
       ELSE IF since(1960) THEN 105 ELSE 90

\* lines 1085-1172: final_tempo before the random variation, in thousandths;
\* an influence is << tempo in thousandths, weight in thousandths >>
ClampedTempo(prof, c) ==
    LET occ == GenreOccurrences(c)
        genres == FirstSeen(occ)
        genre_influences ==
            Flatten([ i \in DOMAIN genres |->
                       IF GenreTempo(genres[i]) = << >> THEN << >>
                       ELSE << << GenreTempo(genres[i])[1] * 1000,
                                  Min({ 800, CountIn(occ, genres[i]) * 100 }) >> >> ])
        years == ProfileYears(c)
        era_influences == IF years = << >> THEN << >>
                          ELSE << << EraTempo(years) * 1000, 500 >> >>
        both == prof.energy + prof.danceability
        energy_dance_tempo ==
            (prof.energy * 140000 + prof.danceability * 130000)
                \div (IF both > 0 THEN both ELSE 1000)
        tempo_influences ==
            genre_influences \o era_influences \o << << energy_dance_tempo, 600 >> >>
        weighted_sum == SumSeq([ i \in DOMAIN tempo_influences |->
                                   tempo_influences[i][1] * tempo_influences[i][2] ])
        total_weight == SumSeq([ i \in DOMAIN tempo_influences |-> tempo_influences[i][2] ])
        base_tempo == IF total_weight > 0 THEN weighted_sum \div total_weight ELSE 115000
        valence_adjustment == (prof.valence - 500) * 10
    IN Min({ 180000, Max({ 60000, base_tempo + valence_adjustment }) })

\* a variant of ProfileBeforeTempo that applies the era rules before the popularity rules
EraBeforePopularity(c, themes) ==
    _adjust_profile_by_context(
        DurationStep(
            ExplicitStep(
                PopularityStep(
                    _adjust_by_era(
                        GenreStep(_get_base_audio_profile, c, FirstSeen(GenreOccurrences(c))),
                        ProfileYears(c)),
                    c),
                c),
            c),
        themes)

\* lines 646-760: the profile when _adjust_tempo is called
ProfileBeforeTempo(c, themes) ==
    _adjust_profile_by_context(
        DurationStep(
            ExplicitStep(
                _adjust_by_era(
                    PopularityStep(
                        GenreStep(_get_base_audio_profile, c, FirstSeen(GenreOccurrences(c))),
                        c),
                    ProfileYears(c)),
                c),
            c),
        themes)

(***************************************************************************)
(* AdvancedPlaylistAnalysis.generate_adaptive_audio_profile and the        *)
(* process-wide generator np.random                                        *)
(***************************************************************************)
Procs == { 1, 2 }

\* ''.join(sorted([t.get('id', '') for t in cluster_tracks]))
RECURSIVE JoinIds(_)
JoinIds(c) == IF c = << >> THEN "" ELSE Catalog[c[1]].id \o JoinIds(Tail(c))

track_ids_str(c) == JoinIds(StableSort(c, LAMBDA i, j : c[i] < c[j]))

\* int(hashlib.md5(track_ids_str.encode()).hexdigest(), 16) % 10000
Md5Seed(str) ==
    CASE str = "" -> 8366
      [] str = "t1" -> 3991
      [] str = "t2" -> 4722
      [] str = "t3" -> 7801
      [] str = "t1t3" -> 294
      [] str = "t2t2t4" -> 304
      [] str = "t1t2t3" -> 5419
      [] str = "t3t4t4t4t4" -> 5801
      [] str = "t3t3t3t3t4" -> 423

\* the state of the generator after np.random.seed(seed)
SeedState(value) == value % RngPeriod

\* the state of the generator after one draw
NextState(state) == (state + 1) % RngPeriod

\* the position in [-1, 1), in thousandths, of the value the generator draws in a state
Uniform(state) == ((1999 * state) \div (RngPeriod - 1)) - 1000

\* np.random.uniform(-3, 3), in thousandths
TempoVariation(state) == 3 * Uniform(state)

\* np.random.uniform(-0.03, 0.03), in thousandths
FieldVariation(state) == (30 * Uniform(state)) \div 1000

\* a variant of ClampField that does not clamp
Unclamped(value) == value

\* line 782: max(0.01, min(0.99, profile[key]))
ClampField(value) == Max({ 10, Min({ 990, value }) })

\* the clusters whose profile the model synthesizes
ProfileClusters ==
    { << >>, << 1 >>, << 2 >>, << 3 >>, << 1, 3 >>, << 3, 1 >>, << 4, 2, 2 >>, << 1, 2, 3 >>,
      << 3, 4, 4, 4, 4 >>, << 3, 3, 3, 3, 4 >> }

ConcurrentClusters == { << 1 >>, << 2 >> }

NoProfile == << >>

other(p) == 3 - p

\* lines 646-760: the rules up to the call of _adjust_tempo.  Without
\* concurrency a call starts when no other call is running, call 2 after call 1.
generate_adaptive_audio_profile_start(p) ==
    /\ call_pc[p] = "idle"
    /\ concurrent \/ (call_pc[other(p)] \in { "idle", "returned" } /\ (p = 2 => call_pc[1] = "returned"))
    /\ IF cluster_tracks[p] = << >>
       THEN /\ profile' = [ profile EXCEPT ![p] = _get_base_audio_profile ]
            /\ call_pc' = [ call_pc EXCEPT ![p] = "returned" ]
       ELSE /\ profile' = [ profile EXCEPT ![p] = ProfileBeforeTempo(cluster_tracks[p], context_themes) ]
            /\ call_pc' = [ call_pc EXCEPT ![p] = "adjust_tempo" ]
    /\ UNCHANGED << np_random, cluster_tracks, context_themes, playlist_name, key, concurrent >>
    /\ UNCHANGED besidesProfile

\* lines 1171-1178: final_tempo += np.random.uniform(-3, 3); profile['tempo'] = final_tempo
_adjust_tempo(p) ==
    /\ call_pc[p] = "adjust_tempo"
    /\ profile' = [ profile EXCEPT ![p].tempo =
                      ClampedTempo(profile[p], cluster_tracks[p]) + TempoVariation(np_random) ]
    /\ np_random' = NextState(np_random)
    /\ call_pc' = [ call_pc EXCEPT ![p] = "seed" ]
    /\ UNCHANGED << cluster_tracks, context_themes, playlist_name, key, concurrent >>
    /\ UNCHANGED besidesProfile

\* lines 765-770: np.random.seed(seed)
generate_adaptive_audio_profile_seed(p) ==
    /\ call_pc[p] = "seed"
    /\ np_random' = SeedState(Md5Seed(track_ids_str(cluster_tracks[p])))
    /\ key' = [ key EXCEPT ![p] = 1 ]
    /\ call_pc' = [ call_pc EXCEPT ![p] = "jitter" ]
    /\ UNCHANGED << cluster_tracks, context_themes, playlist_name, profile, concurrent >>
    /\ UNCHANGED besidesProfile

\* lines 772-784: one round of for key in profile, and the return after the last
generate_adaptive_audio_profile_jitter(p) ==
    /\ call_pc[p] = "jitter"
    /\ LET name == ProfileKeys[key[p]]
       IN profile' = [ profile EXCEPT ![p][name] =
                         IF name = "tempo" THEN @ + TempoVariation(np_random)
                         ELSE ClampField(@ + FieldVariation(np_random)) ]
    /\ np_random' = NextState(np_random)
    /\ IF key[p] = Len(ProfileKeys)
       THEN /\ call_pc' = [ call_pc EXCEPT ![p] = "returned" ]
            /\ UNCHANGED key
       ELSE /\ key' = [ key EXCEPT ![p] = @ + 1 ]
            /\ UNCHANGED call_pc
    /\ UNCHANGED << cluster_tracks, context_themes, playlist_name, concurrent >>
    /\ UNCHANGED besidesProfile

\* other code of the process draws from np.random between two calls
other_code_draws ==
    /\ \A p \in Procs : call_pc[p] \in { "idle", "returned" }
    /\ \E p \in Procs : call_pc[p] = "idle"
    /\ np_random' = NextState(np_random)
    /\ UNCHANGED << call_pc, cluster_tracks, context_themes, playlist_name, profile, key, concurrent >>
    /\ UNCHANGED besidesProfile

\* the analysis variables while only profiles are synthesized
AnalysisIdle ==
    /\ analyzer = "Advanced"
    /\ playlist = "bare"
    /\ entry = "generate_adaptive_audio_profile"
    /\ pc = "profile"
    /\ gb_site = "none"
    /\ n = 0
    /\ n_clusters = 0
    /\ optimal_clusters = 0
    /\ cluster_labels = NoneLabels
    /\ seed = 0
    /\ best_labels = NoneLabels
    /\ best_balance = 0
    /\ sorted_centroids = << >>
    /\ pos = 0
    /\ labels = << >>
    /\ cluster_sizes = << >>
    /\ clusters = << >>
    /\ unique_cluster_names = << >>
    /\ result = NoneLabels
    /\ raised = "none"

\* two calls, one after the other, on the same cluster tracks, artist lookup and themes
InitProfile ==
    /\ HistoryIdle
    /\ AnalysisIdle
    /\ PipelineIdle
    /\ EndpointIdle
    /\ concurrent = FALSE
    /\ np_random \in 0..(RngPeriod - 1)
    /\ \E c \in ProfileClusters : cluster_tracks = [ p \in Procs |-> c ]
    /\ context_themes \in ContextThemes
    /\ playlist_name = << >>
    /\ call_pc = [ p \in Procs |-> "idle" ]
    /\ profile = [ p \in Procs |-> NoProfile ]
    /\ key = [ p \in Procs |-> 0 ]

NextProfile ==
    \/ \E p \in Procs : generate_adaptive_audio_profile_start(p)
    \/ \E p \in Procs : _adjust_tempo(p)
    \/ \E p \in Procs : generate_adaptive_audio_profile_seed(p)
    \/ \E p \in Procs : generate_adaptive_audio_profile_jitter(p)
    \/ other_code_draws

SpecProfile == InitProfile /\ [][NextProfile]_vars

\* two calls that run concurrently in one process, on the same or on different tracks
InitConcurrent ==
    /\ HistoryIdle
    /\ AnalysisIdle
    /\ PipelineIdle
    /\ EndpointIdle
    /\ concurrent = TRUE
    /\ np_random \in 0..(RngPeriod - 1)
    /\ \E c \in ConcurrentClusters : cluster_tracks = [ p \in Procs |-> IF p = 1 THEN << 1 >> ELSE c ]
    /\ context_themes = [ mood |-> << >>, activity |-> << >>, decade |-> << >> ]
    /\ playlist_name = << >>
    /\ call_pc = [ p \in Procs |-> "idle" ]
    /\ profile = [ p \in Procs |-> NoProfile ]
    /\ key = [ p \in Procs |-> 0 ]

SpecConcurrent == InitConcurrent /\ [][NextProfile]_vars

(***************************************************************************)
(* The steps of analyze_playlist before the clustering: fetch_artist_data, *)
(* create_enhanced_feature_vectors and perform_umap_reduction.  A playlist *)
(* item says whether it has a track, and whether the track has an id, a    *)
(* name and a non-empty artist list; artists holds the ids of its artists. *)
(***************************************************************************)
MaxItems == 3

\* the artist ids on a track: none with an id, one, a full batch, one more than a batch
ArtistLists == { { }, { 1 }, 1..BatchSize, (BatchSize + 1)..(2 * BatchSize + 1) }

Items ==
    [ track : { TRUE }, id : { TRUE }, name : { TRUE }, listed : { TRUE }, artists : ArtistLists ]
    \cup { [ track |-> TRUE, id |-> FALSE, name |-> TRUE, listed |-> TRUE, artists |-> { 1 } ],
           [ track |-> TRUE, id |-> TRUE, name |-> FALSE, listed |-> TRUE, artists |-> { 1 } ],
           [ track |-> TRUE, id |-> TRUE, name |-> TRUE, listed |-> FALSE, artists |-> { } ],
           [ track |-> FALSE, id |-> FALSE, name |-> FALSE, listed |-> FALSE, artists |-> { } ] }

Playlists == UNION { [ 1..len -> Items ] : len \in 0..MaxItems }

\* lines 109-116: the ids of the artists of every item that has a track
ArtistIds(items) == UNION { items[j].artists : j \in { k \in DOMAIN items : items[k].track } }

\* list(artist_ids): the order of a set is not specified
Orders(ids) ==
    LET up == [ r \in 1..Cardinality(ids) |->
                  CHOOSE x \in ids : Cardinality({ y \in ids : y < x }) = r - 1 ]
    IN { up, Reverse(up) }

\* lines 103-119 of advanced_clustering.py, 66-82 of enhanced_clustering.py;
\* analyze_playlist calls it only if self.artist_data is empty
fetch_artist_data_start ==
    /\ entry = "analyze_playlist"
    /\ pc = "fetch"
    /\ IF artist_data # { }
       THEN /\ pc' = "features"
            /\ UNCHANGED << artist_ids_list, raised >>
       ELSE IF self_tracks = << >>
       THEN /\ pc' = "raised"
            /\ raised' = "ValueError"
            /\ UNCHANGED artist_ids_list
       ELSE /\ artist_ids_list' \in Orders(ArtistIds(self_tracks))
            /\ pc' = "fetch_loop"
            /\ UNCHANGED raised
    /\ UNCHANGED << analyzer, entry, playlist, n, n_clusters, optimal_clusters, cluster_labels,
                    gb_site, clusters, unique_cluster_names, result >>
    /\ UNCHANGED << self_tracks, artist_data, batch_start, requests, feature_vectors,
                    processed_tracks, umap_embedding >>
    /\ UNCHANGED gbVars
    /\ UNCHANGED besidesPipeline

\* a variant of Batch that takes one id more
WiderBatch(list, start) == SubSeq(list, start + 1, Min({ start + BatchSize + 1, Len(list) }))

\* artist_ids_list[i:i+50]
Batch(list, start) == SubSeq(list, start + 1, Min({ start + BatchSize, Len(list) }))

\* lines 121-131: one turn of the loop over the batches, or its end.  The
\* client answers a batch with the artists asked for, or raises.
fetch_artist_data_batch ==
    /\ pc = "fetch_loop"
    /\ IF batch_start < Len(artist_ids_list)
       THEN LET batch_ids == Batch(artist_ids_list, batch_start)
            IN \E answered \in BOOLEAN :
                 /\ requests' = Append(requests, [ batch_ids |-> batch_ids, answered |-> answered ])
                 /\ artist_data' = IF answered THEN artist_data \cup Range(batch_ids)
                                   ELSE artist_data          \* except Exception: logged
                 /\ batch_start' = batch_start + BatchSize
                 /\ UNCHANGED pc
       ELSE /\ pc' = "features"
            /\ UNCHANGED << requests, artist_data, batch_start >>
    /\ UNCHANGED << analyzer, entry, playlist, n, n_clusters, optimal_clusters, cluster_labels,
                    gb_site, clusters, unique_cluster_names, result, raised >>
    /\ UNCHANGED << self_tracks, artist_ids_list, feature_vectors, processed_tracks, umap_embedding >>
    /\ UNCHANGED gbVars
    /\ UNCHANGED besidesPipeline

\* a variant of IsValidItem that asks for the track only
HasTrack(item) == item.track

\* lines 176-183: the item is not skipped
IsValidItem(item) == item.track /\ item.id /\ item.listed /\ item.name

\* lines 175-323: the loop over self.tracks; an item is named by its position
\* in self.tracks, and done holds the positions appended so far
RECURSIVE ProcessedTracks(_, _, _)
ProcessedTracks(items, j, done) ==
    IF j > Len(items) THEN done
    ELSE IF IsValidItem(items[j]) THEN ProcessedTracks(items, j + 1, Append(done, j))
    ELSE ProcessedTracks(items, j + 1, done)

\* a variant of FeatureRows that fills the matrix from the last track to the first
ReversedFeatureRows(items, kept, known) ==
    [ r \in DOMAIN kept |->
        [ track |-> kept[Len(kept) + 1 - r],
          artist_known |-> /\ items[kept[Len(kept) + 1 - r]].artists # { }
                           /\ Min(items[kept[Len(kept) + 1 - r]].artists) \in known ] ]

\* lines 205-351: one feature row per appended track, in the order of the
\* appends (the DataFrame and its normalisation keep the rows in place); of
\* the features, the row keeps the track it was read from and whether
\* self.artist_data knew the first artist of the track
FeatureRows(items, kept, known) ==
    [ r \in DOMAIN kept |->
        [ track |-> kept[r],
          artist_known |-> /\ items[kept[r]].artists # { }
                           /\ Min(items[kept[r]].artists) \in known ] ]

\* lines 133-354 of advanced_clustering.py, 96-243 of enhanced_clustering.py,
\* and what analyze_playlist does with the value: the Enhanced class goes on
\* to the clustering (line 1075), the Advanced one to perform_umap_reduction
create_enhanced_feature_vectors ==
    /\ pc = "features"
    /\ IF \/ self_tracks = << >>
          \/ ProcessedTracks(self_tracks, 1, << >>) = << >>
       THEN /\ pc' = "raised"
            /\ raised' = "ValueError"
            /\ UNCHANGED << feature_vectors, processed_tracks, n, result >>
       ELSE /\ processed_tracks' = ProcessedTracks(self_tracks, 1, << >>)
            /\ feature_vectors' = FeatureRows(self_tracks, processed_tracks', artist_data)
            /\ n' = Len(processed_tracks')
            /\ IF entry = "create_enhanced_feature_vectors"
               THEN /\ pc' = "returned"
                    /\ result' = << feature_vectors', processed_tracks' >>
               ELSE /\ pc' = IF analyzer = "Advanced" THEN "umap" ELSE "start"
                    /\ UNCHANGED result
            /\ UNCHANGED raised
    /\ UNCHANGED << analyzer, entry, playlist, n_clusters, optimal_clusters, cluster_labels,
                    gb_site, clusters, unique_cluster_names >>
    /\ UNCHANGED << self_tracks, artist_data, artist_ids_list, batch_start, requests, umap_embedding >>
    /\ UNCHANGED gbVars
    /\ UNCHANGED besidesPipeline

\* pca.fit_transform / reducer.fit_transform: one point per row of X_scaled
Embedding(rows, method) == [ r \in DOMAIN rows |-> [ of |-> rows[r], by |-> method ] ]

\* lines 356-409.  PCA(n_components=2) raises ValueError unless
\* 2 <= min(n_samples, n_features); the matrix has 17 columns
perform_umap_reduction ==
    /\ analyzer = "Advanced"
    /\ pc = "umap"
    /\ \E umap_ok \in BOOLEAN :
         IF feature_vectors = << >>                \* self.feature_vectors is None
         THEN /\ pc' = "raised"
              /\ raised' = "ValueError"
              /\ UNCHANGED << umap_embedding, result >>
         ELSE IF Len(feature_vectors) >= UmapThreshold /\ umap_ok
         THEN /\ umap_embedding' = Embedding(feature_vectors, "umap")
              /\ pc' = IF entry = "perform_umap_reduction" THEN "returned" ELSE "start"
              /\ result' = IF entry = "perform_umap_reduction" THEN umap_embedding' ELSE result
              /\ UNCHANGED raised
         ELSE IF Len(feature_vectors) < PcaComponents
         THEN /\ pc' = "raised"
              /\ raised' = "ValueError"
              /\ UNCHANGED << umap_embedding, result >>
         ELSE /\ umap_embedding' = Embedding(feature_vectors, "pca")
              /\ pc' = IF entry = "perform_umap_reduction" THEN "returned" ELSE "start"
              /\ result' = IF entry = "perform_umap_reduction" THEN umap_embedding' ELSE result
              /\ UNCHANGED raised
    /\ UNCHANGED << analyzer, entry, playlist, n, n_clusters, optimal_clusters, cluster_labels,
                    gb_site, clusters, unique_cluster_names >>
    /\ UNCHANGED << self_tracks, artist_data, artist_ids_list, batch_start, requests,
                    feature_vectors, processed_tracks >>
    /\ UNCHANGED gbVars
    /\ UNCHANGED besidesPipeline

\* len(self.feature_vectors) at a direct call of perform_umap_reduction; 0: None
UmapSizes == (0..MaxTracks) \cup ((UmapThreshold - 1)..(UmapThreshold + MaxExtra))

\* a call of analyze_playlist, of create_enhanced_feature_vectors or of
\* perform_umap_reduction on a new object, or of analyze_playlist on an
\* object that holds artists already
InitPipeline ==
    /\ HistoryIdle
    /\ analyzer \in { "Enhanced", "Advanced" }
    /\ entry \in { "analyze_playlist", "create_enhanced_feature_vectors", "perform_umap_reduction" }
    /\ entry = "perform_umap_reduction" => analyzer = "Advanced"
    /\ playlist = "bare"
    /\ pc = CASE entry = "analyze_playlist" -> "fetch"
              [] entry = "create_enhanced_feature_vectors" -> "features"
              [] OTHER -> "umap"
    /\ IF entry = "perform_umap_reduction"
       THEN /\ self_tracks = << >>
            /\ \E rows \in UmapSizes :
                 feature_vectors = [ r \in 1..rows |-> [ track |-> r, artist_known |-> FALSE ] ]
       ELSE /\ self_tracks \in Playlists
            /\ feature_vectors = << >>
    /\ artist_data \in IF entry = "analyze_playlist" THEN { { }, { 1 } } ELSE { { } }
    /\ artist_ids_list = << >>
    /\ batch_start = 0
    /\ requests = << >>
    /\ processed_tracks = << >>
    /\ umap_embedding = << >>
    /\ gb_site = "none"
    /\ n = 0
    /\ n_clusters = 0
    /\ optimal_clusters = IF analyzer = "Enhanced" THEN DefaultOptimalClusters ELSE 0
    /\ cluster_labels = NoneLabels
    /\ seed = 0
    /\ best_labels = NoneLabels
    /\ best_balance = 0
    /\ sorted_centroids = << >>
    /\ pos = 0
    /\ labels = << >>
    /\ cluster_sizes = << >>
    /\ clusters = << >>
    /\ unique_cluster_names = << >>
    /\ result = NoneLabels
    /\ raised = "none"
    /\ ProfileIdle
    /\ EndpointIdle

NextPipeline ==
    \/ fetch_artist_data_start
    \/ fetch_artist_data_batch
    \/ create_enhanced_feature_vectors
    \/ perform_umap_reduction

SpecPipeline == InitPipeline /\ [][NextPipeline]_vars

(***************************************************************************)
(* routes/stats.py: the cache of analysis results and the endpoint         *)
(* get_hdbscan_playlist_analysis.  A Python value and a JSON value are     *)
(* records of a type tag and a content; the content of a dict and of an    *)
(* object is the sequence of its (key, value) pairs.                       *)
(***************************************************************************)
MaxNow == 8
MaxSaveDay == 1

PyNone == [ t |-> "None", v |-> << >> ]
PyInt(x) == [ t |-> "int", v |-> x ]
PyStr(x) == [ t |-> "str", v |-> x ]
PyList(x) == [ t |-> "list", v |-> x ]
PyTuple(x) == [ t |-> "tuple", v |-> x ]
PyDict(x) == [ t |-> "dict", v |-> x ]
PyBool(x) == [ t |-> "bool", v |-> x ]

\* json.dump: a dict becomes an object whose keys are strings (str(key) for an
\* int key), a list and a tuple become an array
RECURSIVE Dump(_)
Dump(value) ==
    CASE value.t = "dict" ->
           [ j |-> "object",
             v |-> [ e \in DOMAIN value.v |->
                       << IF value.v[e][1].t = "int" THEN ToStr(value.v[e][1].v)
                          ELSE value.v[e][1].v,
                          Dump(value.v[e][2]) >> ] ]
      [] value.t \in { "list", "tuple" } ->
           [ j |-> "array", v |-> [ e \in DOMAIN value.v |-> Dump(value.v[e]) ] ]
      [] value.t = "int" -> [ j |-> "number", v |-> value.v ]
      [] value.t = "str" -> [ j |-> "string", v |-> value.v ]
      [] value.t = "bool" -> [ j |-> "boolean", v |-> value.v ]
      [] OTHER -> [ j |-> "null", v |-> << >> ]

\* json.load: an object becomes a dict with str keys, an array a list
RECURSIVE Load(_)
Load(text) ==
    CASE text.j = "object" ->
           PyDict([ e \in DOMAIN text.v |-> << PyStr(text.v[e][1]), Load(text.v[e][2]) >> ])
      [] text.j = "array" -> PyList([ e \in DOMAIN text.v |-> Load(text.v[e]) ])
      [] text.j = "number" -> PyInt(text.v)
      [] text.j = "string" -> PyStr(text.v)
      [] text.j = "boolean" -> PyBool(text.v)
      [] OTHER -> PyNone

\* the result object of analyze_playlist for k clusters, as far as its shape
\* goes: _create_simplified_analysis (enhanced_clustering.py, lines 1616-1645)
\* gives no genre distributions, the two full analyses key them by the int
\* cluster_idx and list them as (genre, count) tuples of Counter.most_common
ResultObject(method, k) ==
    PyDict(<< << PyStr("clusters"), PyList([ c \in 1..k |-> PyDict(<< << PyStr("id"), PyInt(c) >> >>) ]) >>,
              << PyStr("method"), PyStr(method) >>,
              << PyStr("additional_insights"),
                 PyDict(IF method = "simplified-analysis" THEN << >>
                        ELSE << << PyStr("cluster_genre_distributions"),
                                   PyDict([ c \in 1..k |->
                                              << PyInt(c - 1),
                                                 PyList(<< PyTuple(<< PyStr("rock"), PyInt(c) >>) >>) >> ]) >> >>) >> >>)

ResultObjects ==
    { ResultObject("simplified-analysis", 2), ResultObject("enhanced-balanced-clustering", 1) }

\* playlist ids of requests, and the analysis types the endpoints pass
PlaylistIds == { "37i9", "analysis_37i9" }
AnalysisTypes == { "ml", "advanced" }

\* a variant of CacheFile that leaves the analysis type out
FileOfPlaylist(playlist_id, analysis_type) == "analysis_" \o playlist_id \o ".json"

\* f'{analysis_type}_analysis_{playlist_id}.json'
CacheFile(playlist_id, analysis_type) == analysis_type \o "_analysis_" \o playlist_id \o ".json"

CacheFiles == { CacheFile(p, v) : p \in PlaylistIds, v \in AnalysisTypes }

NoFile == [ exists |-> FALSE, text |-> Dump(PyNone), mtime |-> 0 ]
NoSave == [ exists |-> FALSE, data |-> PyNone, at |-> 0 ]

\* lines 27-44: the value of get_cached_analysis(playlist_id, analysis_type)
CachedValue(playlist_id, analysis_type) ==
    IF /\ cache[CacheFile(playlist_id, analysis_type)].exists
       /\ now - cache[CacheFile(playlist_id, analysis_type)].mtime < FreshDays
    THEN Load(cache[CacheFile(playlist_id, analysis_type)].text)
    ELSE PyNone

\* what a call leaves behind for the observer
Called(op, playlist_id, analysis_type, value, status, body, valid) ==
    [ op |-> op, playlist_id |-> playlist_id, analysis_type |-> analysis_type, value |-> value,
      status |-> status, body |-> body, valid |-> valid ]

\* lines 27-44
get_cached_analysis ==
    /\ \E playlist_id \in PlaylistIds, analysis_type \in AnalysisTypes :
         call' = Called("get_cached_analysis", playlist_id, analysis_type,
                        CachedValue(playlist_id, analysis_type), 0, "none", 0)
    /\ UNCHANGED << cache, now, saved >>
    /\ UNCHANGED << analysisVars, profileVars, pipelineVars, historyVars >>

\* lines 46-55; saved is the observer's record of the call
save_cached_analysis ==
    /\ now <= MaxSaveDay
    /\ \E playlist_id \in PlaylistIds, analysis_type \in AnalysisTypes, data \in ResultObjects :
         /\ cache' = [ cache EXCEPT ![CacheFile(playlist_id, analysis_type)] =
                         [ exists |-> TRUE, text |-> Dump(data), mtime |-> now ] ]
         /\ saved' = [ saved EXCEPT ![<< playlist_id, analysis_type >>] =
                         [ exists |-> TRUE, data |-> data, at |-> now ] ]
         /\ call' = Called("save_cached_analysis", playlist_id, analysis_type, data, 0, "none", 0)
    /\ UNCHANGED now
    /\ UNCHANGED << analysisVars, profileVars, pipelineVars, historyVars >>

\* a day passes between two calls
day_passes ==
    /\ now < MaxNow
    /\ now' = now + 1
    /\ call' = Called("none", "", "", PyNone, 0, "none", 0)
    /\ UNCHANGED << cache, saved >>
    /\ UNCHANGED << analysisVars, profileVars, pipelineVars, historyVars >>

\* how AdvancedPlaylistAnalysis.analyze_playlist ends for a playlist with valid
\* valid tracks: create_enhanced_feature_vectors and perform_umap_reduction
\* raise ValueError without two valid tracks, and the naming of the first
\* cluster raises AttributeError (advanced_clustering.py, line 1248)
AdvancedOutcome(valid) == IF valid < PcaComponents THEN "ValueError" ELSE "AttributeError"

\* def get_simple_playlist_analysis(current_user, playlist_id, return_tracks=False)
SimpleParameters == << "current_user", "playlist_id", "return_tracks" >>

\* a variant of Binds under which every call binds
BindsAlways(parameters, positional, keywords) == TRUE

\* whether a call with these positional and keyword arguments binds to the
\* parameters; Python raises TypeError otherwise
Binds(parameters, positional, keywords) ==
    /\ Len(positional) <= Len(parameters)
    /\ keywords \subseteq { parameters[j] : j \in (Len(positional) + 1)..Len(parameters) }
    /\ "playlist_id" \in { parameters[j] : j \in 1..Len(positional) } \cup keywords

\* routes/user.py, lines 13-57: the name get_simple_playlist_analysis is bound
\* to the wrapper decorated, which checks the token of the request and calls
\* f(current_user, *args, **kwargs)
token_required(token, positional, keywords) ==
    IF token # "valid" THEN "401"
    ELSE IF Binds(SimpleParameters, << "current_user" >> \o positional, keywords) THEN "called"
    ELSE "TypeError"

\* what the endpoint answers
Answer(playlist_id, value, status, body, valid) ==
    Called("get_hdbscan_playlist_analysis", playlist_id, "advanced", value, status, body, valid)

\* lines 1752-1766: the simple analysis is called through its wrapper, with
\* current_user and playlist_id as positional arguments
Fallback(playlist_id, valid) ==
    IF /\ token_required("valid", << "current_user", "playlist_id" >>, { "return_tracks" }) = "called"
       /\ valid >= SimpleMinTracks
    THEN Answer(playlist_id, PyStr(AdvancedOutcome(valid)), 200, "fallback", valid)
    ELSE Answer(playlist_id, PyStr(AdvancedOutcome(valid)), 500, "error", valid)

\* lines 1683-1772, with the wrapper of token_required around it.  The
\* request has a valid token or none; the tracks can or cannot be fetched;
\* the playlist has 4 items, or 5 of which valid (1 or 5) have a valid track
\* and the others no track.
get_hdbscan_playlist_analysis ==
    /\ \E playlist_id \in PlaylistIds :
         \/ call' = Answer(playlist_id, PyNone, 401, "error", 0)
         \/ /\ CachedValue(playlist_id, "advanced") # PyNone
            /\ call' = Answer(playlist_id, CachedValue(playlist_id, "advanced"), 200, "cached", 0)
         \/ /\ CachedValue(playlist_id, "advanced") = PyNone
            /\ \/ call' = Answer(playlist_id, PyNone, 500, "error", 0)
               \/ call' = Answer(playlist_id, PyNone, 400, "error", 0)    \* AdvancedMinItems - 1 items
               \/ \E valid \in { PcaComponents - 1, AdvancedMinItems } :
                    call' = Fallback(playlist_id, valid)
    /\ UNCHANGED << cache, now, saved >>
    /\ UNCHANGED << analysisVars, profileVars, pipelineVars, historyVars >>

InitEndpoint ==
    /\ HistoryIdle
    /\ cache = [ file \in CacheFiles |-> NoFile ]
    /\ now = 0
    /\ saved = [ k \in PlaylistIds \X AnalysisTypes |-> NoSave ]
    /\ call = Called("none", "", "", PyNone, 0, "none", 0)
    /\ AnalysisIdle
    /\ ProfileIdle
    /\ PipelineIdle

NextEndpoint ==
    \/ get_cached_analysis
    \/ save_cached_analysis
    \/ day_passes
    \/ get_hdbscan_playlist_analysis

SpecEndpoint == InitEndpoint /\ [][NextEndpoint]_vars

\* floor(n/k) and ceil(n/k)
BalancedCounts(rows, k) == { rows \div k, (rows + k - 1) \div k }

\* lab gives each of rows rows a label and every cluster in it has a balanced size
IsBalancedLabeling(lab, rows, k) ==
    /\ DOMAIN lab = 1..rows
    /\ \A v \in Range(lab) : Counts(lab, v) \in BalancedCounts(rows, k)

\* C1: every call guaranteed_balanced_clustering(X, k) with n >= 1 rows and
\* k >= 1 target clusters returns a labeling in which every cluster has
\* floor(n/k) or ceil(n/k) rows, in the branch n < 20 as in the size-constrained one.
C1_EveryClusterFloorOrCeil ==
    (entry = "guaranteed_balanced_clustering" /\ pc = "returned")
        => IsBalancedLabeling(result, n, n_clusters)

\* the label values in use are exactly 0..m-1 for some m >= 1
IsDense(lab) == Range(lab) = 0..(Cardinality(Range(lab)) - 1)

\* C2: every label array that a cluster-selection operation returns
\* (perform_hdbscan_clustering on any path, its GMM and K-means fallbacks
\* included, and the Enhanced perform_clustering) gives each input row one
\* label, and the label values in use are exactly 0..k-1 for some k >= 1: no
\* -1 is left and no value in the range is unused.
C2_LabelsDense ==
    (\/ analyzer = "Enhanced" /\ entry = "analyze_playlist" /\ pc = "balance_check"
     \/ analyzer = "Advanced" /\ entry = "analyze_playlist" /\ pc = "clustered")
        => /\ DOMAIN cluster_labels = 1..n
           /\ IsDense(cluster_labels)

\* C3: perform_hdbscan_clustering never raises for an embedding of one or
\* more rows: whichever of the HDBSCAN, mixture-model and K-means attempts
\* fail, the call ends by returning a label array.
C3_HdbscanChainNeverRaises ==
    ~(analyzer = "Advanced" /\ entry = "analyze_playlist" /\ n >= 1
        /\ pc = "raised" /\ raised = "ValueError")

\* C4: in the Enhanced analyze_playlist with 4 or more valid tracks no
\* outcome of the clustering step (an exception, or any labeling it can
\* return) reaches the caller as an exception: the call returns a result.
C4_EnhancedAlwaysReturns ==
    ~(analyzer = "Enhanced" /\ entry = "analyze_playlist" /\ n >= MinClusterTracks
        /\ pc = "raised")

\* every processed track is in exactly one cluster, once
EachTrackInOneCluster ==
    /\ \A r \in 1..n : Cardinality({ i \in DOMAIN clusters : r \in Range(clusters[i]) }) = 1
    /\ \A i \in DOMAIN clusters : Cardinality(Range(clusters[i])) = Len(clusters[i])

\* C5: in every result that analyze_playlist returns (either class, the
\* simplified path included) each processed track belongs to exactly one
\* cluster object, each cluster's count and total_tracks are the number of
\* tracks with its label, the counts sum to the result's total_tracks, and
\* optimal_clusters is the number of cluster objects.
C5_ResultCountsConsistent ==
    (entry = "analyze_playlist" /\ pc = "returned") =>
        /\ DOMAIN result.clusters = DOMAIN clusters
        /\ EachTrackInOneCluster
        /\ \A i \in DOMAIN result.clusters :
             /\ result.clusters[i].count = Len(clusters[i])
             /\ result.clusters[i].total_tracks = Len(clusters[i])
             /\ result.clusters[i].id = i
             /\ result.method = "enhanced-balanced-clustering" =>
                  result.clusters[i].count =
                      Counts(cluster_labels, ClusterKeys(cluster_labels)[i])
        /\ SumSeq([ i \in DOMAIN result.clusters |-> result.clusters[i].count ])
             = result.total_tracks
        /\ result.total_tracks = n
        /\ result.optimal_clusters = Len(result.clusters)

\* a clustered result of several clusters was returned, not the simplified one
C5_Witness ==
    /\ entry = "analyze_playlist"
    /\ pc = "returned"
    /\ result.method = "enhanced-balanced-clustering"
    /\ Len(result.clusters) >= 2
    /\ \E i \in DOMAIN result.clusters : result.clusters[i].count >= 2

\* C6: two invocations of generate_adaptive_audio_profile, one after the
\* other, with the same cluster tracks, artist lookup and context themes
\* return the same values for all eight profile fields, whatever the state
\* of the process-wide generator before each invocation.
C6_SameInputSameProfile ==
    (~concurrent /\ \A p \in Procs : call_pc[p] = "returned") => profile[1] = profile[2]

\* the state of the generator at the draw for the i-th profile key of a call that runs alone
AloneState(c, i) == (SeedState(Md5Seed(track_ids_str(c))) + (i - 1)) % RngPeriod

\* the profile that a call returns when it runs alone and the generator is in state r0 at its start
RunAlone(c, themes, r0) ==
    IF c = << >> THEN _get_base_audio_profile
    ELSE [ name \in DOMAIN ProfileBeforeTempo(c, themes) |->
             IF name = "tempo"
             THEN ClampedTempo(ProfileBeforeTempo(c, themes), c) + TempoVariation(r0)
                  + TempoVariation(AloneState(c, CHOOSE i \in DOMAIN ProfileKeys : ProfileKeys[i] = name))
             ELSE ClampField(ProfileBeforeTempo(c, themes)[name]
                  + FieldVariation(AloneState(c, CHOOSE i \in DOMAIN ProfileKeys : ProfileKeys[i] = name))) ]

\* C7: when two analysis calls run concurrently, under every interleaving of
\* the seeding and drawing steps of the two profile syntheses each call
\* returns a profile that it returns when it runs alone.
C7_ConcurrentAsAlone ==
    \A p \in Procs :
        (concurrent /\ call_pc[p] = "returned") =>
            \E r0 \in 0..(RngPeriod - 1) :
                profile[p] = RunAlone(cluster_tracks[p], context_themes, r0)

\* C8: every profile that generate_adaptive_audio_profile returns has its
\* seven non-tempo fields in [0.01, 0.99] and its tempo in [57, 183]
\* (thousandths here).
C8_ProfileInRange ==
    \A p \in Procs :
        call_pc[p] = "returned" =>
            \A i \in DOMAIN ProfileKeys :
                IF ProfileKeys[i] = "tempo"
                THEN profile[p].tempo >= 57000 /\ profile[p].tempo <= 183000
                ELSE profile[p][ProfileKeys[i]] >= 10 /\ profile[p][ProfileKeys[i]] <= 990

\* a profile was returned for a cluster with tracks, and the clamp set one of its fields
C8_Witness ==
    \E p \in Procs :
        /\ call_pc[p] = "returned"
        /\ cluster_tracks[p] # << >>
        /\ \E i \in DOMAIN ProfileKeys :
             ProfileKeys[i] # "tempo" /\ profile[p][ProfileKeys[i]] \in { 10, 990 }

\* no two arguments of the function f have the same value
Injective(f) == \A a, b \in DOMAIN f : a # b => f[a] # f[b]

\* C9: for two or more clusters create_unique_cluster_names returns a name
\* for every cluster and no two clusters receive the same name; the names in
\* every result of analyze_playlist with several clusters differ as well.
C9_NamesUnique ==
    /\ (analyzer = "Enhanced" /\ entry = "analyze_playlist" /\ pc \in { "returned", "raised" }
          /\ Len(clusters) >= 2 /\ cluster_labels # NoneLabels /\ raised # "TypeError"
          /\ (pc = "returned" => result.method = "enhanced-balanced-clustering")) =>
            /\ DOMAIN unique_cluster_names = Range(cluster_labels)
            /\ Injective(unique_cluster_names)
    /\ (entry = "analyze_playlist" /\ pc = "returned" /\ Len(result.clusters) >= 2) =>
            Injective([ i \in DOMAIN result.clusters |-> result.clusters[i].name ])

\* three or more clusters were named and the result was returned
C9_Witness ==
    /\ analyzer = "Enhanced"
    /\ entry = "analyze_playlist"
    /\ pc = "returned"
    /\ Cardinality(DOMAIN unique_cluster_names) >= 3
    /\ Len(result.clusters) >= 3

\* C10: in the Enhanced analyze_playlist, once the balance check (threshold
\* 0.4) and, when it triggers, guaranteed_balanced_clustering have run, the
\* labeling from which the result is built has no cluster with more than 40%
\* of the tracks, for every playlist of 4 or more tracks.
C10_NoClusterAboveShare ==
    (analyzer = "Enhanced" /\ entry = "analyze_playlist" /\ n >= MinClusterTracks
        /\ pc = "organize" /\ cluster_labels # NoneLabels)
        => ~Unbalanced(cluster_labels)

\* C11: AdvancedPlaylistAnalysis.analyze_playlist, for a playlist with one or
\* more valid tracks, clusters the tracks, synthesizes a profile and a name
\* for each cluster and returns the assembled result without raising.
C11_AdvancedReturnsResult ==
    ~(analyzer = "Advanced" /\ entry = "analyze_playlist" /\ n >= 1
        /\ pc = "raised" /\ raised = "AttributeError")

\* C12: for 3 valid tracks without a parseable release date and without
\* artist data the Enhanced analyze_playlist does not raise and returns a
\* result with exactly one cluster, of count 3, whose track list holds all
\* 3 tracks.
C12_ThreeBareTracksOneCluster ==
    (analyzer = "Enhanced" /\ entry = "analyze_playlist" /\ n = 3 /\ playlist = "bare") =>
        /\ pc \in { "start", "simplified", "returned" }
        /\ pc = "returned" =>
             /\ Len(result.clusters) = 1
             /\ result.clusters[1].count = 3
             /\ Range(result.clusters[1].tracks) = 1..3
             /\ Len(result.clusters[1].tracks) = 3

\* the analysis of 3 tracks without dates and artists has returned
C12_Witness ==
    /\ analyzer = "Enhanced"
    /\ entry = "analyze_playlist"
    /\ n = 3
    /\ playlist = "bare"
    /\ pc = "returned"
    /\ result.method = "simplified-analysis"

\* C13: _create_simplified_analysis on 4 or more tracks of which one or more
\* has a parseable year returns exactly two clusters: "Recent Tracks" (id 1,
\* the floor(n/2) tracks of the latest years) and "Older Tracks" (id 2, all
\* other tracks, those without a year included); 4 dated tracks split evenly
\* old/new give two clusters of 2 tracks with percentage 50.0.
C13_SimplifiedSplitsByYear ==
    (analyzer = "Enhanced" /\ pc = "returned" /\ result.method = "simplified-analysis"
        /\ n >= 4 /\ \E r \in 1..n : TrackYear(playlist, r, n) > 0) =>
        /\ Len(result.clusters) = 2
        /\ result.clusters[1].id = 1 /\ result.clusters[1].name = "Recent Tracks"
        /\ result.clusters[2].id = 2 /\ result.clusters[2].name = "Older Tracks"
        /\ result.clusters[1].count = n \div 2
        /\ result.clusters[2].count = n - (n \div 2)
        /\ \A i \in 1..2 : Len(result.clusters[i].tracks) = result.clusters[i].count
        /\ Range(result.clusters[1].tracks) \cup Range(result.clusters[2].tracks) = 1..n
        /\ \A a \in Range(result.clusters[1].tracks), b \in Range(result.clusters[2].tracks) :
             TrackYear(playlist, a, n) >= TrackYear(playlist, b, n)
        /\ (n = 4 /\ playlist = "eras") =>
             \A i \in 1..2 : result.clusters[i].count = 2 /\ result.clusters[i].percentage = 500

\* 4 dated tracks, two old and two new, were split by the simplified analysis
C13_Witness ==
    /\ analyzer = "Enhanced"
    /\ pc = "returned"
    /\ result.method = "simplified-analysis"
    /\ n = 4
    /\ playlist = "eras"
    /\ Len(result.clusters) = 2
    /\ result.clusters[1].percentage = 500

\* the positions of the items the validity rule keeps
ValidPositions(items) ==
    { j \in DOMAIN items : items[j].track /\ items[j].id /\ items[j].listed /\ items[j].name }

\* C14: create_enhanced_feature_vectors keeps exactly the items whose track
\* is present and has an id, a non-empty artist list and a name, in their
\* original order; the feature matrix has one row per kept item, and row r is
\* computed from kept track r.
C14_FeatureRowsFollowValidItems ==
    (entry # "perform_umap_reduction" /\ pc \in { "umap", "start", "returned", "raised" }) =>
        IF feature_vectors = << >>
        THEN pc = "raised" /\ ValidPositions(self_tracks) = { }
        ELSE /\ Range(processed_tracks) = ValidPositions(self_tracks)
             /\ \A r \in 1..(Len(processed_tracks) - 1) : processed_tracks[r] < processed_tracks[r + 1]
             /\ Len(feature_vectors) = Len(processed_tracks)
             /\ \A r \in DOMAIN feature_vectors : feature_vectors[r].track = processed_tracks[r]

\* of three items, the second was dropped and the other two were kept
C14_Witness ==
    /\ Len(self_tracks) = 3
    /\ processed_tracks = << 1, 3 >>
    /\ Len(feature_vectors) = 2
    /\ feature_vectors[2].track = 3

\* C15: for an empty item list, and for a list without a valid item, the
\* feature builder raises ValueError and analyze_playlist, of either class,
\* returns no result; no feature matrix and no result exist for zero valid tracks.
C15_NoResultWithoutValidTracks ==
    (entry \in { "analyze_playlist", "create_enhanced_feature_vectors" }
        /\ ValidPositions(self_tracks) = { }) =>
        /\ pc \in { "fetch", "fetch_loop", "features", "raised" }
        /\ pc = "raised" => raised = "ValueError"
        /\ result = NoneLabels
        /\ feature_vectors = << >>
        /\ processed_tracks = << >>

\* analyze_playlist has raised for a playlist of items that are all invalid
C15_Witness ==
    /\ entry = "analyze_playlist"
    /\ self_tracks # << >>
    /\ ValidPositions(self_tracks) = { }
    /\ requests # << >>
    /\ pc = "raised"
    /\ raised = "ValueError"

\* the ids asked for in request r
Asked(r) == Range(requests[r].batch_ids)

\* C16: fetch_artist_data asks for every distinct artist id of the playlist in
\* exactly one batch, the batches hold 50 ids or fewer, and whichever batches
\* fail, the loop runs to its end and artist_data holds exactly the artists
\* of the batches that were answered.
C16_BatchesCoverIdsOnce ==
    /\ \A r \in DOMAIN requests :
         /\ Len(requests[r].batch_ids) \in 1..BatchSize
         /\ Cardinality(Asked(r)) = Len(requests[r].batch_ids)
         /\ \A q \in DOMAIN requests : q # r => Asked(q) \cap Asked(r) = { }
    /\ artist_ids_list # << >> =>
         /\ artist_data = UNION { Asked(r) : r \in { q \in DOMAIN requests : requests[q].answered } }
         /\ pc # "fetch_loop" =>
              UNION { Asked(r) : r \in DOMAIN requests } = ArtistIds(self_tracks)
    /\ (pc = "raised" /\ entry = "analyze_playlist" /\ self_tracks # << >>) =>
         batch_start >= Len(artist_ids_list)

\* three batches were asked for, the second failed, and the call went on
C16_Witness ==
    /\ Len(requests) = 3
    /\ requests[1].answered
    /\ ~requests[2].answered
    /\ requests[3].answered
    /\ pc = "features"
    /\ Cardinality(artist_data) = BatchSize + 1

\* C17: perform_umap_reduction uses the linear projection below 10 rows and
\* the non-linear method from 10 rows on, falls back to the linear projection
\* when the non-linear method fails, and for every non-empty feature matrix
\* returns one point per feature row, in the order of the rows.
C17_EmbeddingFollowsRows ==
    (analyzer = "Advanced" /\ feature_vectors # << >> /\ pc \in { "start", "returned", "raised" }
        /\ entry # "create_enhanced_feature_vectors") =>
        /\ pc # "raised"
        /\ Len(umap_embedding) = Len(feature_vectors)
        /\ \A r \in DOMAIN umap_embedding : umap_embedding[r].of = feature_vectors[r]
        /\ Len(feature_vectors) < UmapThreshold => \A r \in DOMAIN umap_embedding : umap_embedding[r].by = "pca"

\* C18: when AdvancedPlaylistAnalysis.analyze_playlist raises inside the
\* endpoint get_hdbscan_playlist_analysis and the simple analysis can produce
\* a result for the playlist (3 tracks or more), the endpoint answers with the
\* result of the simple analysis, marked fallback, and not with an error.
C18_FallbackAnswersSimpleAnalysis ==
    (call.op = "get_hdbscan_playlist_analysis" /\ call.value.t = "str"
        /\ call.valid >= SimpleMinTracks) =>
        call.status = 200 /\ call.body = "fallback"

\* a == b for two Python values: same types, same keys, same contents
RECURSIVE SameValue(_, _)
SameValue(a, b) ==
    /\ a.t = b.t
    /\ CASE a.t \in { "int", "str" } -> a.v = b.v
         [] a.t \in { "list", "tuple" } ->
              /\ Len(a.v) = Len(b.v)
              /\ \A e \in DOMAIN a.v : SameValue(a.v[e], b.v[e])
         [] a.t = "dict" ->
              /\ Len(a.v) = Len(b.v)
              /\ \A e \in DOMAIN a.v : SameValue(a.v[e][1], b.v[e][1]) /\ SameValue(a.v[e][2], b.v[e][2])
         [] OTHER -> TRUE

\* C19: for every result object of analyze_playlist, save_cached_analysis
\* followed by get_cached_analysis for the same playlist id and analysis type
\* inside the freshness window returns an object equal to the one saved.
C19_CacheRoundTripEqual ==
    (call.op = "get_cached_analysis" /\ call.value.t # "None") =>
        SameValue(call.value, saved[<< call.playlist_id, call.analysis_type >>].data)

\* what a read of (playlist_id, analysis_type) is to give now: the data of the
\* latest save for this pair as json.load reads them, if less than 7 days old
Expected(playlist_id, analysis_type) ==
    IF /\ saved[<< playlist_id, analysis_type >>].exists
       /\ now - saved[<< playlist_id, analysis_type >>].at < FreshDays
    THEN Load(Dump(saved[<< playlist_id, analysis_type >>].data))
    ELSE PyNone

\* C20: over any sequence of saves and reads, get_cached_analysis(p, v)
\* returns the stored data only if the latest save for exactly p and v is less
\* than 7 days old, and nothing otherwise; an entry of another playlist or
\* analysis type is never returned.  The same holds for the read the endpoint makes.
C20_ReadsLatestFreshSave ==
    /\ call.op = "get_cached_analysis" =>
         call.value = Expected(call.playlist_id, call.analysis_type)
    /\ (call.op = "get_hdbscan_playlist_analysis" /\ call.status # 401) =>
         (call.body = "cached" <=> Expected(call.playlist_id, "advanced") # PyNone)
    /\ (call.op = "get_hdbscan_playlist_analysis" /\ call.body = "cached") =>
         call.value = Expected(call.playlist_id, "advanced")

\* a read returned nothing for an entry saved 7 days before, although the
\* entry of the other analysis type for the same playlist is still fresh
C20_Witness ==
    /\ call.op = "get_cached_analysis"
    /\ call.value = PyNone
    /\ saved[<< call.playlist_id, call.analysis_type >>].exists
    /\ now - saved[<< call.playlist_id, call.analysis_type >>].at = FreshDays
    /\ \E v \in AnalysisTypes :
         /\ v # call.analysis_type
         /\ saved[<< call.playlist_id, v >>].exists
         /\ now - saved[<< call.playlist_id, v >>].at < FreshDays

(***************************************************************************)
(* extract_playlist_context of both classes.  A playlist name is a         *)
(* sequence of words and signs that single spaces separate; the            *)
(* description is empty.                                                   *)
(***************************************************************************)

\* the longest playlist name the model draws, in words
MaxWords == 3

\* the words and signs the names are written with
NameWords == { "Late", "Night", "Study", "Session", "the", "Focus", "Lo-Fi", "GYM", "&" }

\* self.playlist_description
playlist_description == << >>

\* re.findall(r'\w+', word.lower()): the lower-case runs of letters and digits of one word
WordTokens(word) ==
    CASE word = "Late" -> << "late" >>
      [] word = "Night" -> << "night" >>
      [] word = "Study" -> << "study" >>
      [] word = "Session" -> << "session" >>
      [] word = "the" -> << "the" >>
      [] word = "Focus" -> << "focus" >>
      [] word = "Lo-Fi" -> << "lo", "fi" >>
      [] word = "GYM" -> << "gym" >>
      [] word = "&" -> << >>

\* the tokens of (playlist_name + " " + playlist_description).lower()
Tokenize(name, description) ==
    Flatten([ w \in DOMAIN (name \o description) |-> WordTokens((name \o description)[w]) ])

\* stop_words of the class
stop_words(cls) ==
    { "the", "a", "an", "and", "or", "but", "is", "are", "to", "for", "in", "on", "by", "with" }
        \cup (IF cls = "Advanced" THEN { "of", "this" } ELSE { })

\* the theme types of the class, in the order of the dict themes
ThemeTypes(cls) ==
    IF cls = "Advanced" THEN << "mood", "genre", "activity", "time", "decade" >>
    ELSE << "mood", "genre", "activity", "time" >>

\* themes[theme_type] of EnhancedPlaylistAnalysis
EnhancedThemeWords(theme_type) ==
    CASE theme_type = "mood" ->
           { "happy", "sad", "chill", "relax", "energetic", "calm", "focus", "study", "party",
             "upbeat", "melancholy" }
      [] theme_type = "genre" ->
           { "rock", "pop", "hip", "hop", "rap", "jazz", "classical", "electronic", "dance",
             "metal", "country", "folk", "indie" }
      [] theme_type = "activity" ->
           { "workout", "run", "gym", "sleep", "drive", "commute", "work", "coding", "reading" }
      [] theme_type = "time" ->
           { "morning", "night", "evening", "weekend", "summer", "winter", "spring", "fall" }

\* themes[theme_type] of AdvancedPlaylistAnalysis
AdvancedThemeWords(theme_type) ==
    CASE theme_type = "mood" ->
           { "happy", "sad", "chill", "relax", "energetic", "calm", "focus", "study", "party",
             "upbeat", "melancholy", "mellow", "peaceful", "aggressive", "angry", "emotional",
             "dark", "light", "dreamy", "intense", "nostalgic", "uplifting", "somber",
             "reflective", "contemplative", "cheerful", "gloomy", "atmospheric", "vibrant" }
      [] theme_type = "genre" ->
           { "rock", "pop", "hip", "hop", "rap", "jazz", "classical", "electronic", "dance",
             "metal", "country", "folk", "indie", "soul", "funk", "blues", "r&b", "reggae",
             "disco", "punk", "grunge", "techno", "house", "ambient", "trap", "edm",
             "alternative", "lo-fi", "instrumental", "vocal", "acoustic", "experimental" }
      [] theme_type = "activity" ->
           { "workout", "run", "gym", "sleep", "drive", "commute", "work", "coding", "reading",
             "cooking", "cleaning", "gaming", "meditation", "yoga", "walking", "hiking",
             "biking", "swimming", "dinner", "party", "concentration", "relaxation", "travel",
             "road", "trip", "background", "focus", "productivity", "motivation",
             "inspiration", "dancing", "exercising", "cardio", "strength" }
      [] theme_type = "time" ->
           { "morning", "night", "evening", "weekend", "summer", "winter", "spring", "fall",
             "autumn", "holiday", "christmas", "halloween", "new", "year", "season", "daily",
             "weekly", "monthly", "yearly", "dawn", "dusk", "afternoon", "midnight", "sunrise",
             "sunset" }
      [] theme_type = "decade" ->
           { "50s", "60s", "70s", "80s", "90s", "00s", "10s", "20s", "fifties", "sixties",
             "seventies", "eighties", "nineties", "aughts", "tens", "twenties", "retro",
             "vintage", "classic", "modern", "contemporary", "oldies", "throwback" }

ThemeWords(cls, theme_type) ==
    IF cls = "Advanced" THEN AdvancedThemeWords(theme_type) ELSE EnhancedThemeWords(theme_type)

\* [' '.join(tokens[i:i+2]) for i in range(len(tokens)-1)], of AdvancedPlaylistAnalysis only
Bigrams(cls, tokens) ==
    IF cls = "Advanced" /\ Len(tokens) > 1
    THEN [ b \in 1..(Len(tokens) - 1) |-> tokens[b] \o " " \o tokens[b + 1] ]
    ELSE << >>

\* the value of extract_playlist_context: per theme type the tokens, then the bigrams, found in its words
ExtractedContext(cls, name, description) ==
    LET kept == SelectSeq(Tokenize(name, description), LAMBDA t : t \notin stop_words(cls))
    IN [ theme_type \in Range(ThemeTypes(cls)) |->
           SelectSeq(kept, LAMBDA t : t \in ThemeWords(cls, theme_type))
               \o SelectSeq(Bigrams(cls, kept), LAMBDA t : t \in ThemeWords(cls, theme_type)) ]

extract_playlist_context ==
    /\ entry = "extract_playlist_context"
    /\ pc = "start"
    /\ context_themes' = ExtractedContext(analyzer, playlist_name, playlist_description)
    /\ pc' = "returned"
    /\ UNCHANGED << analyzer, entry, playlist, n, n_clusters, optimal_clusters, cluster_labels,
                    seed, best_labels, best_balance, sorted_centroids, pos, labels, cluster_sizes,
                    gb_site, clusters, unique_cluster_names, result, raised >>
    /\ UNCHANGED << np_random, call_pc, cluster_tracks, playlist_name, profile, key, concurrent >>
    /\ UNCHANGED << pipelineVars, endpointVars, historyVars >>

\* the name of the scenario "Late Night Study Session"
StudySession == << "Late", "Night", "Study", "Session" >>

RECURSIVE NamesOf(_)
NamesOf(len) ==
    IF len = 0 THEN { << >> }
    ELSE NamesOf(len - 1) \cup { Append(s, w) : s \in NamesOf(len - 1), w \in NameWords }

\* an analyzer of either class, constructed with a playlist name, before the method is called
InitContext ==
    /\ HistoryIdle
    /\ PipelineIdle
    /\ EndpointIdle
    /\ analyzer \in { "Enhanced", "Advanced" }
    /\ playlist = "bare"
    /\ entry = "extract_playlist_context"
    /\ pc = "start"
    /\ gb_site = "none"
    /\ n = 0
    /\ n_clusters = 0
    /\ optimal_clusters = 0
    /\ cluster_labels = NoneLabels
    /\ seed = 0
    /\ best_labels = NoneLabels
    /\ best_balance = 0
    /\ sorted_centroids = << >>
    /\ pos = 0
    /\ labels = << >>
    /\ cluster_sizes = << >>
    /\ clusters = << >>
    /\ unique_cluster_names = << >>
    /\ result = NoneLabels
    /\ raised = "none"
    /\ np_random = 0
    /\ call_pc = [ p \in Procs |-> "idle" ]
    /\ cluster_tracks = [ p \in Procs |-> << >> ]
    /\ context_themes = << >>
    /\ playlist_name \in NamesOf(MaxWords) \cup { StudySession }
    /\ profile = [ p \in Procs |-> << >> ]
    /\ key = [ p \in Procs |-> 0 ]
    /\ concurrent = FALSE

NextContext == extract_playlist_context

SpecContext == InitContext /\ [][NextContext]_vars

\* C21: for the playlist name "Late Night Study Session" with an empty
\* description, extract_playlist_context returns themes whose activity list
\* contains "study" and whose time list contains "night", and every theme type
\* with no matching token has an empty list; for every name, each token that
\* is no stop word is in the list of each theme type whose words contain it
\* and in no other list.
C21_StudySessionThemes ==
    (entry = "extract_playlist_context" /\ pc = "returned") =>
        LET tokens == Tokenize(playlist_name, playlist_description)
            kept == { tokens[t] : t \in { u \in DOMAIN tokens : tokens[u] \notin stop_words(analyzer) } }
        IN /\ DOMAIN context_themes = Range(ThemeTypes(analyzer))
           /\ \A theme_type \in DOMAIN context_themes :
                  /\ \A t \in kept :
                         t \in Range(context_themes[theme_type]) <=> t \in ThemeWords(analyzer, theme_type)
                  /\ kept \cap ThemeWords(analyzer, theme_type) = { } => context_themes[theme_type] = << >>
           /\ playlist_name = StudySession =>
                  /\ "study" \in Range(context_themes.activity)
                  /\ "night" \in Range(context_themes.time)

\* C22: perform_hdbscan_clustering abandons the density-based result for the
\* mixture model when the noise share of the first fit is above 40% or it has
\* more groups than the size-derived maximum; when the first fit labels every
\* point noise, the method first fits once more with the relaxed parameters,
\* and calls the mixture model only if that fit labels every point noise too.
C22_RetryBeforeMixture ==
    (analyzer = "Advanced" /\ hdbscan_calls # << >> /\ hdbscan_calls[1].ok) =>
        LET first == hdbscan_calls[1]
            last == hdbscan_calls[Len(hdbscan_calls)]
        IN IF first.all_noise
           THEN /\ Len(hdbscan_calls) >= 2
                /\ hdbscan_calls[2] # GmmCall
                /\ hdbscan_calls[2].params = "relaxed"
                /\ last = GmmCall => (Len(hdbscan_calls) = 3 /\ hdbscan_calls[2].all_noise)
           ELSE first.rejected => hdbscan_calls = << first, GmmCall >>

\* the jitter of one key is the last change of the key but for the clamp of
\* the fields in 0-1, and a returned profile does not change
JitterThenClamp ==
    \A p \in Procs :
        /\ call_pc[p] = "jitter" /\ profile'[p] # profile[p] =>
               \E name \in Range(ProfileKeys) :
                   /\ \A other_name \in Range(ProfileKeys) \ { name } :
                          profile'[p][other_name] = profile[p][other_name]
                   /\ profile'[p][name] =
                          IF name = "tempo" THEN profile[p][name] + TempoVariation(np_random)
                          ELSE Max({ 10, Min({ 990, profile[p][name] + FieldVariation(np_random) }) })
        /\ call_pc[p] = "returned" => profile'[p] = profile[p]

WorkoutThemes(themes) ==
    /\ themes.mood = << >>
    /\ themes.decade = << >>
    /\ themes.activity # << >>
    /\ Range(themes.activity) \subseteq { "workout", "gym" }

\* the profile of the cluster before the context rules: the rules up to the duration rules
BeforeContext(c) ==
    ProfileBeforeTempo(c, [ mood |-> << >>, activity |-> << >>, decade |-> << >> ])

\* value lies nearer to target than from does, or at it
PulledToward(value, from, target) ==
    IF from = target THEN value = target ELSE Abs(target - value) < Abs(target - from)

\* C24: with the activity workout or gym among the themes, the context rules
\* pull tempo toward 130 and energy toward 0.9, and the tempo pull is carried
\* into the returned profile: the tempo that _adjust_tempo sets is not the one
\* it would set had the context rules left the tempo alone.
C24_WorkoutTempoCarried ==
    /\ [](\A p \in Procs :
            (call_pc[p] = "adjust_tempo" /\ WorkoutThemes(context_themes)) =>
                /\ PulledToward(profile[p].tempo, BeforeContext(cluster_tracks[p]).tempo, 130000)
                /\ PulledToward(profile[p].energy, BeforeContext(cluster_tracks[p]).energy, 900))
    /\ [][\A p \in Procs :
            (call_pc[p] = "adjust_tempo" /\ call_pc'[p] = "seed" /\ WorkoutThemes(context_themes)
                /\ profile[p].tempo # BeforeContext(cluster_tracks[p]).tempo) =>
                profile'[p].tempo #
                    ClampedTempo([ profile[p] EXCEPT !.tempo = BeforeContext(cluster_tracks[p]).tempo ],
                                 cluster_tracks[p]) + TempoVariation(np_random)]_vars

(***************************************************************************)
(* The loop of create_unique_cluster_names over the groups of clusters     *)
(* that share a base name, one differentiator at a time.  The loop is      *)
(* entered with the clusters of a label array and with base_names given:   *)
(* it is written for every value create_cluster_name can return.           *)
(***************************************************************************)

\* the base names the loop is entered with
GivenBaseNames == { "Rock", "Mix" }

\* the group the loop is at: the clusters whose base name is group_names[g]
GroupIndices(nm, lab) ==
    SelectSeq(ClusterKeys(lab), LAMBDA idx : nm.base_names[idx] = nm.group_names[nm.g])

\* the names given so far, as the differentiators take them
NamingState(nm) == [ final |-> nm.final, used |-> nm.used ]

\* naming with final_names and used_names of st, at the step named
NamingAt(nm, st, step, g) ==
    [ nm EXCEPT !.final = st.final, !.used = st.used, !.step = step, !.g = g ]

naming_unchanged ==
    /\ UNCHANGED analysisVars
    /\ UNCHANGED << profileVars, pipelineVars, endpointVars, hdbscan_calls, max_clusters >>

\* lines 1332-1340: the next group; a group of one cluster keeps its base name
naming_group ==
    /\ entry = "create_unique_cluster_names"
    /\ naming.step = "group"
    /\ naming.g <= Len(naming.group_names)
    /\ LET indices == GroupIndices(naming, cluster_labels)
       IN naming' = IF Len(indices) = 1
                    THEN NamingAt(naming,
                                  NameIt(NamingState(naming), indices[1], naming.group_names[naming.g]),
                                  "group", naming.g + 1)
                    ELSE NamingAt(naming, NamingState(naming), "era", naming.g)
    /\ naming_unchanged

\* line 1343
naming_era ==
    /\ naming.step = "era"
    /\ naming' = NamingAt(naming,
                          _differentiate_by_era(
                              IndexedClusters(GroupIndices(naming, cluster_labels), cluster_labels),
                              NamingState(naming), naming.group_names[naming.g],
                              playlist, Len(cluster_labels)),
                          "size", naming.g)
    /\ naming_unchanged

\* lines 1345-1349
naming_size ==
    /\ naming.step = "size"
    /\ naming' = NamingAt(naming,
                          DifferentiateRemainingBySize(GroupIndices(naming, cluster_labels),
                              NamingState(naming), naming.group_names[naming.g], cluster_labels),
                          "audio", naming.g)
    /\ naming_unchanged

\* lines 1351-1355
naming_audio ==
    /\ naming.step = "audio"
    /\ naming' = NamingAt(naming,
                          DifferentiateRemainingByAudio(GroupIndices(naming, cluster_labels),
                              NamingState(naming), naming.group_names[naming.g], cluster_labels,
                              naming.oracle),
                          "fallback", naming.g)
    /\ naming_unchanged

\* lines 1357-1367
naming_fallback ==
    /\ naming.step = "fallback"
    /\ naming' = NamingAt(naming,
                          FallbackRemaining(GroupIndices(naming, cluster_labels),
                              NamingState(naming), naming.group_names[naming.g]),
                          "group", naming.g + 1)
    /\ naming_unchanged

\* the loop is entered: clusters of 4 tracks or more, base_names any function to the given names
InitNaming ==
    /\ PipelineIdle
    /\ EndpointIdle
    /\ ProfileIdle
    /\ hdbscan_calls = << >>
    /\ max_clusters = 0
    /\ analyzer = "Enhanced"
    /\ playlist \in MetaShapes
    /\ entry = "create_unique_cluster_names"
    /\ pc = "naming"
    /\ gb_site = "none"
    /\ n \in MinClusterTracks..MaxTracks
    /\ n_clusters = 0
    /\ optimal_clusters = 0
    /\ cluster_labels \in { l \in LabelArrays(n, 0..(MaxK - 1)) : Cardinality(Range(l)) >= 2 }
    /\ seed = 0
    /\ best_labels = NoneLabels
    /\ best_balance = 0
    /\ sorted_centroids = << >>
    /\ pos = 0
    /\ labels = << >>
    /\ cluster_sizes = << >>
    /\ clusters = << >>
    /\ unique_cluster_names = << >>
    /\ result = NoneLabels
    /\ raised = "none"
    /\ \E base_names \in [ Range(cluster_labels) -> GivenBaseNames ],
          oracle \in { o \in ProfileOracles : o.name = 0 /\ ~o.vary /\ o.diff <= 1 } :
          naming = [ base_names |-> base_names,
                     group_names |-> FirstSeen([ k \in DOMAIN ClusterKeys(cluster_labels) |->
                                                   base_names[ClusterKeys(cluster_labels)[k]] ]),
                     g |-> 1, step |-> "group", final |-> << >>, used |-> { }, oracle |-> oracle ]

NextNaming ==
    \/ naming_group
    \/ naming_era
    \/ naming_size
    \/ naming_audio
    \/ naming_fallback

SpecNaming == InitNaming /\ [][NextNaming]_vars

\* the clusters of the group at hand that have a name
NamedOfGroup(nm) == { idx \in Range(GroupIndices(nm, cluster_labels)) : idx \in DOMAIN nm.final }

\* C25: for a group of two or more clusters that share a base name, the
\* differentiators run in the order era, size, audio profile, numbered
\* "Group N"; a later one names only clusters that every earlier one left
\* without a name, a name once given is never replaced, and when the group is
\* left every cluster of it has a name.
C25_DifferentiatorsInOrder ==
    [][naming # << >> =>
        /\ \A idx \in DOMAIN naming.final :
               idx \in DOMAIN naming'.final /\ naming'.final[idx] = naming.final[idx]
        /\ naming.step = "era" => naming'.step = "size"
        /\ naming.step = "size" => naming'.step = "audio"
        /\ naming.step = "audio" => naming'.step = "fallback"
        /\ naming.step = "fallback" =>
               /\ naming'.step = "group"
               /\ Range(GroupIndices(naming, cluster_labels)) \subseteq DOMAIN naming'.final
        /\ naming.step = "group" /\ naming'.step = "era" =>
               /\ Len(GroupIndices(naming, cluster_labels)) >= 2
               /\ NamedOfGroup(naming) = { }
        /\ naming.step \in { "size", "audio", "fallback" } =>
               \A idx \in DOMAIN naming'.final \ DOMAIN naming.final :
                   idx \in Range(GroupIndices(naming, cluster_labels))]_vars

\* a group of three clusters or more has been left in which the era step gave
\* names to some clusters and a later step to the others
C25_Witness ==
    /\ naming # << >>
    /\ naming.step = "group"
    /\ naming.g = 2
    /\ Cardinality(DOMAIN naming.final) >= 3
    /\ \E a, b \in DOMAIN naming.final :
           /\ naming.final[a] = naming.group_names[1] \o " (Classic)"
           /\ naming.final[b] = naming.group_names[1] \o " Group 1"

(***************************************************************************)
(* AdvancedPlaylistAnalysis.create_descriptive_cluster_name, called for    *)
(* the clusters of one run in the order of the loop of analyze_playlist.   *)
(* A name is the sequence of its words; single spaces join them.           *)
(***************************************************************************)

\* the words of str.title() of a genre
TitleWords(g) ==
    CASE g = "rock" -> << "Rock" >>
      [] g = "pop" -> << "Pop" >>
      [] g = "dance pop" -> << "Dance", "Pop" >>

\* a in b, for two strings given by their words
WordsIn(a, b) == \E s \in 0..(Len(b) - Len(a)) : SubSeq(b, s + 1, s + Len(a)) = a

\* lines 1363-1385: the mood of a profile by the thirds of valence and energy (1 low, 2 middle, 3 high)
MoodOf(valence, energy) ==
    << << "Melancholic", "Thoughtful", "Intense" >>,
       << "Relaxed", "Balanced", "Energetic" >>,
       << "Peaceful", "Upbeat", "Euphoric" >> >>[valence][energy]

\* what the thresholds of the method see of the profile generated at line 1343:
\* the thirds of valence and energy, the tempo category and the instrumentation
DescriptiveLooks ==
    { [ valence |-> 1, energy |-> 1, tempo |-> "Slow", instrumentation |-> << "Acoustic" >> ],
      [ valence |-> 2, energy |-> 2, tempo |-> "Medium", instrumentation |-> << >> ],
      [ valence |-> 3, energy |-> 3, tempo |-> "Fast",
        instrumentation |-> << "Electronic", "&", "Instrumental" >> ] }

\* str.title() of a context keyword
KeywordTitle(kw) ==
    CASE kw = "workout" -> "Workout" [] kw = "gym" -> "Gym" [] kw = "chill" -> "Chill"
      [] kw = "sad" -> "Sad" [] kw = "sleep" -> "Sleep" [] kw = "retro" -> "Retro"

\* lines 1314-1316 and 1408-1419: the genre component of the name, a list of at most one component
GenreComponent(tracks, shape) ==
    LET occ == Flatten([ i \in DOMAIN tracks |-> TrackGenres(shape, tracks[i]) ])
        common == GenreMostCommon(tracks, shape)
        top5 == SubSeq(common, 1, Min({ 5, Len(common) }))
        top_genres == SelectSeq(top5, LAMBDA g : 5 * CountIn(occ, g) >= Len(tracks))
    IN IF Len(top_genres) >= 2
       THEN << TitleWords(top_genres[1]) \o << "&" >> \o TitleWords(top_genres[2]) >>
       ELSE IF Len(top_genres) = 1 THEN << TitleWords(top_genres[1]) >>
       ELSE << >>

\* lines 1423-1433; attr is self.cluster_names: whether the attribute exists, and its values
UsesGenericGenre(attr, name_components) ==
    /\ attr.has
    /\ attr.names # << >>
    /\ name_components # << >>
    /\ Cardinality({ k \in DOMAIN attr.names : WordsIn(name_components[1], attr.names[k]) }) >= 2

\* lines 1435-1445: the mood is put before the genre, or stands alone
WithMood(name_components, generic, look, tracks) ==
    IF (name_components = << >> \/ generic) /\ tracks # << >>
    THEN IF name_components # << >>
         THEN << << MoodOf(look.valence, look.energy) >> \o name_components[1] >>
         ELSE << << MoodOf(look.valence, look.energy) >> >>
    ELSE name_components

\* lines 1447-1453
WithTempo(name_components, generic, look, tracks) ==
    IF generic /\ tracks # << >>
    THEN IF look.tempo = "Fast" \/ look.energy = 3
         THEN << << "Energetic" >> \o name_components[1] >> \o Tail(name_components)
         ELSE IF look.tempo = "Slow" /\ look.energy = 1
         THEN << << "Mellow" >> \o name_components[1] >> \o Tail(name_components)
         ELSE name_components
    ELSE name_components

\* lines 1318-1327 and 1455-1458
WithArtist(name_components, tracks, shape) ==
    LET artists == [ i \in DOMAIN tracks |-> TrackArtist(shape, tracks[i]) ]
        artist_keys == FirstSeen(artists)
        top == StableSort(artist_keys,
                   LAMBDA i, j : CountIn(artists, artist_keys[i]) > CountIn(artists, artist_keys[j]))
    IN IF tracks # << >> /\ 2 * CountIn(artists, top[1]) > Len(tracks)
       THEN Append(name_components, << top[1] \o "'s", "Style" >>)
       ELSE name_components

\* lines 1460-1467
WithEra(name_components, tracks, shape, rows) ==
    LET years == TrackYears(tracks, shape, rows)
        decade == ((SumSeq(years) \div Len(years)) \div 10) * 10
    IN IF years # << >> /\ Max(Range(years)) - Min(Range(years)) < 15
          /\ ~\E c \in DOMAIN name_components : ToStr(decade) \in Range(name_components[c])
       THEN Append(name_components, << ToStr(decade) \o "s" >>)
       ELSE name_components

\* lines 1469-1475
WithInstrumentation(name_components, generic, look, tracks) ==
    IF (name_components = << >> \/ generic) /\ tracks # << >> /\ look.instrumentation # << >>
    THEN IF name_components # << >>
         THEN << look.instrumentation \o name_components[1] >> \o Tail(name_components)
         ELSE << look.instrumentation >>
    ELSE name_components

\* lines 1477-1484
WithFallbacks(name_components, cluster_idx, themes) ==
    LET context_keywords ==
            IF themes = << >> THEN << >> ELSE themes.mood \o themes.activity \o themes.decade
    IN IF name_components # << >> THEN name_components
       ELSE IF context_keywords # << >> THEN << << KeywordTitle(context_keywords[1]), "Vibes" >> >>
       ELSE << << "Cluster", ToStr(cluster_idx + 1) >> >>

\* lines 1291-1490: the name, the words of f"{cluster_label}: {description}"
create_descriptive_cluster_name(cluster_idx, tracks, shape, rows, look, attr, themes) ==
    LET genre == GenreComponent(tracks, shape)
        generic == UsesGenericGenre(attr, genre)
    IN << "Cluster", ToStr(cluster_idx + 1) \o ":" >> \o
       Flatten(
           WithFallbacks(
               WithInstrumentation(
                   WithEra(
                       WithArtist(
                           WithTempo(WithMood(genre, generic, look, tracks), generic, look, tracks),
                           tracks, shape),
                       tracks, shape, rows),
                   generic, look, tracks),
               cluster_idx, themes))

\* self.cluster_names: no statement of the class assigns the attribute
NoClusterNames == [ has |-> FALSE, names |-> << >> ]

\* one call of the method, for the next cluster of the loop at lines 1236-1261
call_create_descriptive_cluster_name ==
    /\ entry = "create_descriptive_cluster_name"
    /\ naming.cluster_idx < Len(ClusterKeys(cluster_labels))
    /\ \E look \in DescriptiveLooks :
         naming' = [ naming EXCEPT
                       !.names = Append(@,
                           create_descriptive_cluster_name(
                               naming.cluster_idx,
                               ClusterTracks(cluster_labels, ClusterKeys(cluster_labels)[naming.cluster_idx + 1]),
                               playlist, Len(cluster_labels), look, naming.cluster_names,
                               context_themes)),
                       !.looks = Append(@, look),
                       !.cluster_idx = @ + 1 ]
    /\ naming_unchanged

\* the clusters of a run are about to be named
InitDescriptive ==
    /\ PipelineIdle
    /\ EndpointIdle
    /\ hdbscan_calls = << >>
    /\ max_clusters = 0
    /\ np_random = 0
    /\ call_pc = [ p \in Procs |-> "idle" ]
    /\ cluster_tracks = [ p \in Procs |-> << >> ]
    /\ context_themes \in ContextThemes
    /\ playlist_name = << >>
    /\ profile = [ p \in Procs |-> << >> ]
    /\ key = [ p \in Procs |-> 0 ]
    /\ concurrent = FALSE
    /\ analyzer = "Advanced"
    /\ playlist \in MetaShapes
    /\ entry = "create_descriptive_cluster_name"
    /\ pc = "naming"
    /\ gb_site = "none"
    /\ n \in MinClusterTracks..MaxTracks
    /\ n_clusters = 0
    /\ optimal_clusters = 0
    /\ cluster_labels \in LabelArrays(n, 0..(MaxK - 1))
    /\ seed = 0
    /\ best_labels = NoneLabels
    /\ best_balance = 0
    /\ sorted_centroids = << >>
    /\ pos = 0
    /\ labels = << >>
    /\ cluster_sizes = << >>
    /\ clusters = << >>
    /\ unique_cluster_names = << >>
    /\ result = NoneLabels
    /\ raised = "none"
    /\ naming = [ cluster_idx |-> 0, names |-> << >>, looks |-> << >>, cluster_names |-> NoClusterNames ]

NextDescriptive == call_create_descriptive_cluster_name

SpecDescriptive == InitDescriptive /\ [][NextDescriptive]_vars

\* C26: during one run, when the leading genre of the cluster being named
\* already leads the names of sibling clusters that were named earlier in the
\* run, create_descriptive_cluster_name puts a mood descriptor of the
\* valence/energy grid before the genre; the names assigned so far in the run
\* are what the check is made against.
C26_MoodBeforeSharedGenre ==
    (entry = "create_descriptive_cluster_name") =>
        \A k \in DOMAIN naming.names :
            LET tracks == ClusterTracks(cluster_labels, ClusterKeys(cluster_labels)[k])
                genre == GenreComponent(tracks, playlist)
                earlier == SubSeq(naming.names, 1, k - 1)
            IN (genre # << >>
                  /\ Cardinality({ e \in DOMAIN earlier : WordsIn(genre[1], earlier[e]) }) >= 2) =>
                  WordsIn(<< MoodOf(naming.looks[k].valence, naming.looks[k].energy) >> \o genre[1],
                          naming.names[k])

\* the target of the claim: 2 below 15 valid tracks, 3 below 30, 4 below 60,
\* 5 below 100, min(6, m) from 100 on
SizeDerivedTarget(valid, m) ==
    IF valid < 15 THEN 2 ELSE IF valid < 30 THEN 3 ELSE IF valid < 60 THEN 4
    ELSE IF valid < 100 THEN 5 ELSE Min({ 6, m })

\* C27: analyze_playlist(sp, max_clusters=m) of a freshly constructed
\* EnhancedPlaylistAnalysis derives its target cluster count from the number
\* of valid tracks (2 below 15, 3 below 30, 4 below 60, 5 below 100,
\* min(6, m) from 100 on), and neither targets nor returns more than m clusters.
C27_TargetFromSize ==
    (analyzer = "Enhanced" /\ entry = "analyze_playlist") =>
        /\ pc = "perform_clustering" =>
               /\ n_clusters = SizeDerivedTarget(n, max_clusters)
               /\ n_clusters <= max_clusters
        /\ pc = "returned" => Len(result.clusters) <= max_clusters

(***************************************************************************)
(* Steps 6 to 10 of AdvancedPlaylistAnalysis.analyze_playlist (lines       *)
(* 1217-1288) on a label array that perform_hdbscan_clustering has         *)
(* returned, with the call of line 1248 reaching the method defined at     *)
(* line 1291: what the steps put into the result once a name is returned.  *)
(* In analyze_playlist as written the call raises AttributeError first     *)
(* (advanced_analyze_playlist_build_result).                               *)
(***************************************************************************)

\* lines 1236-1261: the cluster objects, for cluster_idx, (label, tracks) in enumerate(clusters.items())
AdvancedClusterObjects(lab, shape) ==
    [ k \in DOMAIN OrganizedClusters(lab) |->
        [ id |-> (k - 1) + 1,
          count |-> Len(OrganizedClusters(lab)[k]),
          tracks |-> SampleTracks(OrganizedClusters(lab)[k], shape),
          total_tracks |-> Len(OrganizedClusters(lab)[k]) ] ]

\* lines 1263-1280: one record per row, cluster_id = cluster_labels[i] + 1
Coordinates(lab) == [ r \in DOMAIN lab |-> [ track |-> r, cluster |-> lab[r] + 1 ] ]

advanced_build_result_named ==
    /\ analyzer = "Advanced"
    /\ entry = "build_result"
    /\ pc = "clustered"
    /\ clusters' = OrganizedClusters(cluster_labels)
    /\ result' = [ clusters |-> AdvancedClusterObjects(cluster_labels, playlist),
                   total_tracks |-> n,
                   analyzed_tracks |-> n,
                   optimal_clusters |-> Len(clusters'),
                   method |-> "hdbscan-umap",
                   visualization |-> Coordinates(cluster_labels) ]
    /\ pc' = "returned"
    /\ UNCHANGED << analyzer, entry, playlist, n, n_clusters, optimal_clusters, cluster_labels, gb_site,
                    unique_cluster_names, raised >>
    /\ UNCHANGED gbVars
    /\ UNCHANGED besidesAnalysis

\* the label arrays the clustering of AdvancedPlaylistAnalysis returns: those of
\* perform_hdbscan_clustering after the remapping (every value of 0..m-1 used, first
\* seen in any order), and those of the mixture model (a component can be without rows)
ReturnedLabelArrays(rows) ==
    { Remap(l) : l \in LabelArrays(rows, 0..(MaxK - 1)) } \cup LabelArrays(rows, 0..(MaxK - 1))

InitAdvancedResult ==
    /\ HistoryIdle
    /\ ProfileIdle
    /\ PipelineIdle
    /\ EndpointIdle
    /\ analyzer = "Advanced"
    /\ entry = "build_result"
    /\ playlist \in MetaShapes
    /\ pc = "clustered"
    /\ gb_site = "none"
    /\ n \in PcaComponents..MaxTracks
    /\ n_clusters = 0
    /\ optimal_clusters = 0
    /\ cluster_labels \in ReturnedLabelArrays(n)
    /\ seed = 0
    /\ best_labels = NoneLabels
    /\ best_balance = 0
    /\ sorted_centroids = << >>
    /\ pos = 0
    /\ labels = << >>
    /\ cluster_sizes = << >>
    /\ clusters = << >>
    /\ unique_cluster_names = << >>
    /\ result = NoneLabels
    /\ raised = "none"

NextAdvancedResult == advanced_build_result_named

SpecAdvancedResult == InitAdvancedResult /\ [][NextAdvancedResult]_vars

C29_GenreDistributionOfPosition ==
    (analyzer = "Enhanced" /\ entry = "analyze_playlist" /\ cluster_labels # NoneLabels) =>
        /\ ~(pc = "raised" /\ raised = "KeyError")
        /\ (pc = "returned" /\ result.method = "enhanced-balanced-clustering") =>
              \A i \in DOMAIN result.clusters :
                  result.additional_insights.cluster_genre_distributions[i - 1] =
                      GenreDistribution(clusters[i], playlist)

(***************************************************************************)
(* routes/stats.py: the requests to the hybrid, the ML and the HDBSCAN     *)
(* endpoint, and what they write to the cache                              *)
(***************************************************************************)
\* the analysis types of the three endpoints
EndpointTypes == { "hybrid", "ml", "advanced" }

RequestFiles == { CacheFile(p, v) : p \in PlaylistIds, v \in EndpointTypes }

\* lines 46-55: open(cache_file, 'w') and json.dump(data, f)
Written(files, playlist_id, analysis_type, data) ==
    [ files EXCEPT ![CacheFile(playlist_id, analysis_type)] =
        [ exists |-> TRUE, text |-> Dump(data), mtime |-> now ] ]

\* json.dump writes the chunks before the first value it cannot encode
PartlyWritten(files, playlist_id, analysis_type) ==
    [ files EXCEPT ![CacheFile(playlist_id, analysis_type)] =
        [ exists |-> TRUE, text |-> [ j |-> "partial", v |-> << >> ], mtime |-> now ] ]

\* the dict d with d[key] = value added
WithEntry(d, name, value) == PyDict(Append(d.v, << PyStr(name), value >>))

\* how EnhancedPlaylistAnalysis.analyze_playlist ends: it raises, or it returns
\* a result of a method with clusters of these counts
MlAnalyses ==
    { [ raised |-> TRUE, method |-> "none", counts |-> << >> ],
      [ raised |-> FALSE, method |-> "simplified-analysis", counts |-> << 2, 1 >> ],
      [ raised |-> FALSE, method |-> "enhanced-balanced-clustering", counts |-> << 2, 2, 1 >> ] }

\* lines 1646-1657: largest_ratio > 0.6 adds balance_warning
BalanceWarned(outcome) ==
    LET data == ResultObject(outcome.method, Len(outcome.counts))
        largest == Max(Range(outcome.counts))
    IN IF outcome.counts # << >> /\ 10 * largest > 6 * SumSeq(outcome.counts)
       THEN WithEntry(data, "balance_warning", PyBool(TRUE))
       ELSE data

\* what a request leaves: the answer and the files of the cache
Left(status, body, value, files) ==
    [ status |-> status, body |-> body, value |-> value, files |-> files ]

\* lines 1590-1679, the body of get_ml_playlist_analysis: the cache is not read
\* (cached_results = None); the tracks cannot be fetched, or there are fewer
\* than 5 items, or the analysis ends as outcome says; save_cached_analysis
\* raises before it writes (save_fails) or writes the result
MlBody(playlist_id, items, outcome, save_fails, files) ==
    IF items = "error" THEN Left(500, "error", PyNone, files)
    ELSE IF items = "few" THEN Left(400, "error", PyNone, files)
    ELSE IF outcome.raised THEN Left(500, "error", PyNone, files)
    ELSE Left(200, "result", BalanceWarned(outcome),
              IF save_fails THEN files
              ELSE Written(files, playlist_id, "ml", BalanceWarned(outcome)))

\* the inputs of a request to the ML endpoint
MlInputs == [ items : { "error", "few", "enough" }, outcome : MlAnalyses, save_fails : BOOLEAN ]

\* def get_ml_playlist_analysis(current_user, playlist_id)
MlParameters == << "current_user", "playlist_id" >>

\* lines 1584-1679, with the wrapper of token_required around it: the route
\* calls decorated(playlist_id=...)
get_ml_playlist_analysis ==
    /\ now <= MaxSaveDay
    /\ \E playlist_id \in PlaylistIds :
         \/ /\ call' = Called("get_ml_playlist_analysis", playlist_id, "ml", PyNone, 401, "error", 0)
            /\ UNCHANGED << cache, saved >>
         \/ /\ Binds(MlParameters, << "current_user" >>, { "playlist_id" })
            /\ \E in \in MlInputs :
                 LET left == MlBody(playlist_id, in.items, in.outcome, in.save_fails, cache)
                 IN /\ cache' = left.files
                    /\ saved' = IF left.files = cache THEN saved
                                ELSE [ saved EXCEPT ![<< playlist_id, "ml" >>] =
                                         [ exists |-> TRUE, data |-> left.value, at |-> now ] ]
                    /\ call' = Called("get_ml_playlist_analysis", playlist_id, "ml",
                                      left.value, left.status, left.body, 0)
    /\ UNCHANGED now
    /\ UNCHANGED << analysisVars, profileVars, pipelineVars, historyVars >>

\* lines 711-723: response_data of the simple analysis
SimpleResult ==
    PyDict(<< << PyStr("clusters"), PyList(<< PyDict(<< << PyStr("id"), PyInt(1) >> >>) >>) >>,
              << PyStr("optimal_clusters"), PyInt(1) >> >>)

\* {"error": str(e)}
ErrorEntry(e) == PyDict(<< << PyStr("error"), PyStr(e) >> >>)

\* the three specialized clusterings of lines 777-805, in their order
Parts == << "genre_clusters", "temporal_clusters", "artist_clusters" >>

\* lines 770-805: specialized_insights, where the clusterings of failed raised
SpecializedInsights(ml_success, ml_analysis, failed) ==
    PyDict((IF ml_success THEN << << PyStr("ml_clusters"), ml_analysis >> >> ELSE << >>)
           \o [ i \in DOMAIN Parts |->
                  << PyStr(Parts[i]),
                     IF Parts[i] \in failed THEN ErrorEntry("failed")
                     ELSE PyDict(<< << PyStr("clusters"), PyList(<< >>) >> >>) >> ])

\* lines 807-814
HybridResponse(playlist_id, base_analysis, specialized_insights, ml_success) ==
    PyDict(<< << PyStr("base_analysis"), base_analysis >>,
              << PyStr("specialized_insights"), specialized_insights >>,
              << PyStr("playlist_id"), PyStr(playlist_id) >>,
              << PyStr("timestamp"), PyStr(ToStr(now)) >>,
              << PyStr("enhanced_ml"), PyBool(ml_success) >> >>)

\* the inputs of a request to the hybrid endpoint: those of the ML endpoint it
\* calls, how the simple analysis ends (a (response_data, tracks) pair, or the
\* pair of an error response and its status, lines 461-466 and 726-730), the
\* specialized clusterings that raise, and whether save_cached_analysis raises
HybridInputs ==
    [ ml : MlInputs, base : { "result", "error" }, failed : SUBSET Range(Parts),
      save_fails : BOOLEAN ]

\* the inputs a request reads: none of a call that does not bind
HybridInputsRead ==
    { in \in HybridInputs :
        /\ Binds(MlParameters, << "current_user", "current_user", "playlist_id" >>, {})
              \/ in.ml = [ items |-> "error", outcome |-> CHOOSE o \in MlAnalyses : o.raised,
                           save_fails |-> FALSE ]
        /\ Binds(SimpleParameters, << "current_user", "current_user", "playlist_id" >>,
                 { "return_tracks" })
              \/ (in.base = "error" /\ in.failed = {} /\ ~in.save_fails) }

\* lines 742-830, after the cache was missed.  get_ml_playlist_analysis and
\* get_simple_playlist_analysis are the wrappers of token_required, called with
\* current_user and playlist_id as positional arguments; an error answer of
\* the ML endpoint is a tuple and has no attribute json.  With an error pair
\* of the simple analysis base_analysis is a Response and tracks a status:
\* the clusterings raise, json.dump stops at the Response and jsonify raises.
HybridBody(playlist_id, in, files) ==
    LET ml_called == Binds(MlParameters, << "current_user", "current_user", "playlist_id" >>, {})
        ml == IF ml_called
              THEN MlBody(playlist_id, in.ml.items, in.ml.outcome, in.ml.save_fails, files)
              ELSE Left(0, "TypeError", PyNone, files)
        ml_success == ml_called /\ ml.status = 200
        base_called == Binds(SimpleParameters, << "current_user", "current_user", "playlist_id" >>,
                             { "return_tracks" })
        response == HybridResponse(playlist_id, SimpleResult,
                                   SpecializedInsights(ml_success, ml.value, in.failed), ml_success)
    IN IF ~base_called THEN Left(500, "error", PyNone, ml.files)
       ELSE IF in.base = "error"
       THEN Left(500, "error", PyNone,
                 IF in.save_fails THEN ml.files
                 ELSE PartlyWritten(ml.files, playlist_id, "hybrid"))
       ELSE Left(200, "result", response,
                 IF in.save_fails THEN ml.files
                 ELSE Written(ml.files, playlist_id, "hybrid", response))

\* lines 735-830, with the wrapper of token_required around it
get_advanced_playlist_analysis ==
    /\ now <= MaxSaveDay
    /\ \E playlist_id \in PlaylistIds :
         \/ /\ call' = Called("get_advanced_playlist_analysis", playlist_id, "hybrid",
                              PyNone, 401, "error", 0)
            /\ UNCHANGED << cache, saved >>
         \/ /\ CachedValue(playlist_id, "hybrid") # PyNone
            /\ call' = Called("get_advanced_playlist_analysis", playlist_id, "hybrid",
                              CachedValue(playlist_id, "hybrid"), 200, "cached", 0)
            /\ UNCHANGED << cache, saved >>
         \/ /\ CachedValue(playlist_id, "hybrid") = PyNone
            /\ \E in \in HybridInputsRead :
                 LET left == HybridBody(playlist_id, in, cache)
                 IN /\ cache' = left.files
                    /\ saved' = [ k \in DOMAIN saved |->
                                    IF left.files[CacheFile(k[1], k[2])] = cache[CacheFile(k[1], k[2])]
                                    THEN saved[k]
                                    ELSE [ exists |-> TRUE,
                                           data |-> Load(left.files[CacheFile(k[1], k[2])].text),
                                           at |-> now ] ]
                    /\ call' = Called("get_advanced_playlist_analysis", playlist_id, "hybrid",
                                      left.value, left.status, left.body, 0)
    /\ UNCHANGED now
    /\ UNCHANGED << analysisVars, profileVars, pipelineVars, historyVars >>

InitRequests ==
    /\ HistoryIdle
    /\ cache = [ file \in RequestFiles |-> NoFile ]
    /\ now = 0
    /\ saved = [ k \in PlaylistIds \X EndpointTypes |-> NoSave ]
    /\ call = Called("none", "", "", PyNone, 0, "none", 0)
    /\ AnalysisIdle
    /\ ProfileIdle
    /\ PipelineIdle

NextRequests ==
    \/ get_advanced_playlist_analysis
    \/ get_ml_playlist_analysis
    \/ get_hdbscan_playlist_analysis
    \/ day_passes

SpecRequests == InitRequests /\ [][NextRequests]_vars

\* the value carries an error entry, at the top or in one of its parts
RECURSIVE CarriesError(_)
CarriesError(value) ==
    \/ /\ value.t = "dict"
       /\ \E e \in DOMAIN value.v :
            value.v[e][1] = PyStr("error") \/ CarriesError(value.v[e][2])
    \/ /\ value.t \in { "list", "tuple" }
       /\ \E e \in DOMAIN value.v : CarriesError(value.v[e])

\* value[key], None without the key
Entry(value, name) ==
    IF value.t = "dict" /\ \E e \in DOMAIN value.v : value.v[e][1] = PyStr(name)
    THEN value.v[CHOOSE e \in DOMAIN value.v : value.v[e][1] = PyStr(name)][2]
    ELSE PyNone

\* the variant whose result the value is: the hybrid response holds a
\* base_analysis, the results of the analyzers name their method
VariantOf(value) ==
    LET method == Entry(value, "method")
    IN IF Entry(value, "base_analysis").t # "None" THEN "hybrid"
       ELSE IF method.t # "str" THEN "none"
       ELSE IF method.v \in { "enhanced-balanced-clustering", "simplified-analysis",
                              "minimal-analysis" } THEN "ml"
       ELSE IF method.v = "hdbscan-umap" THEN "advanced"
       ELSE "none"

====
